---- MODULE Spec2Model ----
(***************************************************************************)
(* State-machine model of xl_pq_handler's metadata store (PQFileStore),    *)
(* dependency resolver (DependencyResolver) and facade (PQManager).        *)
(*                                                                         *)
(* Abstractions:                                                           *)
(*   - a path is a small integer; os.walk visits paths in ascending order; *)
(*   - a .pq file is either unparseable (from_file raises) or the record   *)
(*     to_file_content wrote: the metadata without its path, and the body; *)
(*   - idxNewer stands for                                                 *)
(*       os.path.getmtime(index_path) > self._index_load_time,             *)
(*     the only way the two time stamps are ever used.                     *)
(***************************************************************************)
EXTENDS Integers, Sequences, FiniteSets, TLC

\* ------------------------------------------------------------------ bounds
\* size of an input of the resolver's machine: the dependency entries of
\* the library plus the names of the request
MaxSize == 3
\* script files of the store's machine
NumPaths == 2
\* symbols in the body of a script of the parser's machine
MaxBodyLen == 2
\* pieces that make up a text of the tokenizer's machine
MaxPieces == 2
\* threads that call the store at the same time
NumThreads == 2
\* nested calls of build_tree after which the evaluation is cut (Python
\* cuts it at its recursion limit, with a RecursionError)
MaxDepth == 6

\* --------------------------------------------------------------- universes
\* script names: the resolver's machine has the scripts a, b and c (a may be
\* spelled A), the store's machine the two spellings of one name
ResolverKeys == <<"a", "b", "c">>
Names == {"a", "A", "b", "c"}
StoreNames == {"a", "A"}
Categories == {"util"}
Bodies == {"let"}
Paths == 1..NumPaths
\* the largest path of any specification below
LastPath == IF NumPaths > Len(ResolverKeys) THEN NumPaths ELSE Len(ResolverKeys)

\* str.lower() on the strings of the universes
lower(s) ==
  CASE s = "A" -> "a"
    [] s = "B" -> "b"
    [] s = "C" -> "c"
    [] s = "Util" -> "util"
    [] OTHER -> s

\* position of a lowercase string in Python's string order
StrRank(s) ==
  CASE s = "a" -> 1
    [] s = "b" -> 2
    [] s = "c" -> 3
    [] s = "data" -> 4
    [] s = "util" -> 5
    [] OTHER -> 0

\* str.lstrip("\n") on the strings of the body universe
lstrip_newlines(b) ==
  CASE b = "\nlet" -> "let"
    [] b = "\n\nlet" -> "let"
    [] OTHER -> b

\* -------------------------------------------------------------- data model
\* PowerQueryMetadata (name, category, dependencies, path); tags, description
\* and version keep the defaults of the class
PowerQueryMetadata(n, c, d, p) ==
  [name |-> n, category |-> c, tags |-> <<>>, dependencies |-> d,
   description |-> "", version |-> "1.0", path |-> p]

\* PowerQueryScript (meta, body)
PowerQueryScript(m, b) == [meta |-> m, body |-> b]

\* text of a .pq file that from_file cannot turn into a script
Unparseable ==
  [parseable |-> FALSE, name |-> "", category |-> "", tags |-> <<>>,
   dependencies |-> <<>>, description |-> "", version |-> "", body |-> ""]

\* PowerQueryScript.to_file_content: front-matter without the path, then body
to_file_content(script) ==
  [parseable |-> TRUE, name |-> script.meta.name,
   category |-> script.meta.category, tags |-> script.meta.tags,
   dependencies |-> script.meta.dependencies,
   description |-> script.meta.description, version |-> script.meta.version,
   body |-> script.body]

\* PowerQueryScript.from_file on a parseable file: path is the file's path,
\* leading newlines of the body are stripped
from_file(p, content) ==
  PowerQueryScript(
    [name |-> content.name, category |-> content.category,
     tags |-> content.tags, dependencies |-> content.dependencies,
     description |-> content.description, version |-> content.version,
     path |-> p],
    lstrip_newlines(content.body))

\* the empty dict
EmptyIndex == [k \in {} |-> 0]

\* the index file: absent, unreadable JSON, or a list of records
NoIndexFile == [exists |-> FALSE, ok |-> FALSE, data |-> <<>>]
CorruptIndexFile == [exists |-> TRUE, ok |-> FALSE, data |-> <<>>]
IndexFile(recs) == [exists |-> TRUE, ok |-> TRUE, data |-> recs]

VARIABLES
  files,     \* path -> text of the .pq file there (DOMAIN = existing files)
  idxFile,   \* the persisted index.json
  idxNewer,  \* getmtime(index.json) > _index_load_time
  index,     \* PQFileStore._index: lowercase name -> metadata
  last,      \* the last call: operation, arguments, outcome (op "init":
             \* no call yet)
  readers    \* the threads that call the store at the same time, and
             \* the store they started on

vars == <<files, idxFile, idxNewer, index, last, readers>>

\* the store as one value, for the operators below
Store == [files |-> files, idxFile |-> idxFile, idxNewer |-> idxNewer,
          index |-> index]

\* --------------------------------------------------------- PQFileStore
\* dict assignment d[k] = v
DictSet(d, k, v) == [x \in (DOMAIN d) \cup {k} |-> IF x = k THEN v ELSE d[x]]

\* dict / file removal
Remove(f, k) == [x \in (DOMAIN f) \ {k} |-> f[x]]

is_index_stale(st) ==
  IF DOMAIN st.index = {} THEN TRUE
  ELSE IF ~st.idxFile.exists THEN TRUE
  ELSE st.idxNewer

\* for item in data: self._index[meta.name.lower()] = meta
RECURSIVE fill_index(_, _, _)
fill_index(d, data, i) ==
  IF i > Len(data) THEN d
  ELSE fill_index(DictSet(d, lower(data[i].name), data[i]), data, i + 1)

\* walk that gives up at the first file that fails to parse
RECURSIVE walk_aborting(_, _)
walk_aborting(fs, p) ==
  IF p > LastPath THEN <<>>
  ELSE IF p \in DOMAIN fs
       THEN IF fs[p].parseable
            THEN <<from_file(p, fs[p]).meta>> \o walk_aborting(fs, p + 1)
            ELSE <<>>
       ELSE walk_aborting(fs, p + 1)

\* metadata of the parseable files, in walk order
RECURSIVE walk(_, _)
walk(fs, p) ==
  IF p > LastPath THEN <<>>
  ELSE IF p \in DOMAIN fs /\ fs[p].parseable
       THEN <<from_file(p, fs[p]).meta>> \o walk(fs, p + 1)
       ELSE walk(fs, p + 1)

\* the sort key of build_index
KeyLeq(r1, r2) ==
  \/ StrRank(lower(r1.category)) < StrRank(lower(r2.category))
  \/ /\ StrRank(lower(r1.category)) = StrRank(lower(r2.category))
     /\ StrRank(lower(r1.name)) <= StrRank(lower(r2.name))

\* list.sort(key=...): stable
RECURSIVE insert_sorted(_, _)
insert_sorted(sorted, r) ==
  IF sorted = <<>> THEN <<r>>
  ELSE IF KeyLeq(sorted[Len(sorted)], r) THEN Append(sorted, r)
  ELSE Append(insert_sorted(SubSeq(sorted, 1, Len(sorted) - 1), r),
              sorted[Len(sorted)])

RECURSIVE sort_records(_, _, _)
sort_records(acc, recs, i) ==
  IF i > Len(recs) THEN acc
  ELSE sort_records(insert_sorted(acc, recs[i]), recs, i + 1)

RECURSIVE load_index(_, _), build_index(_)

load_index(st, force_reload) ==
  IF force_reload \/ is_index_stale(st)
  THEN LET cleared == [st EXCEPT !.index = EmptyIndex]
       IN IF ~st.idxFile.exists THEN build_index(cleared)
          ELSE IF st.idxFile.ok
               THEN [cleared EXCEPT
                       !.index = fill_index(EmptyIndex, st.idxFile.data, 1),
                       !.idxNewer = FALSE]
               ELSE cleared
  ELSE st

\* build_index that adds the records it finds to those of the index file
build_index_appending(st) ==
  LET metadata_list == sort_records(<<>>, st.idxFile.data \o walk(st.files, 1), 1)
      written == [st EXCEPT !.idxFile = IndexFile(metadata_list),
                            !.idxNewer = TRUE]
  IN load_index(written, TRUE)

build_index(st) ==
  LET metadata_list == sort_records(<<>>, walk(st.files, 1), 1)
      written == [st EXCEPT !.idxFile = IndexFile(metadata_list),
                            !.idxNewer = TRUE]
  IN load_index(written, TRUE)

\* Optional[...] is a sequence of length 0 (None) or 1
None == <<>>
Some(x) == <<x>>

\* get_metadata_by_name: the store after load_index(), and the result
get_metadata_by_name(st, name) ==
  LET st1 == load_index(st, FALSE)
  IN [st |-> st1,
      ret |-> IF lower(name) \in DOMAIN st1.index
              THEN Some(st1.index[lower(name)]) ELSE None]

\* get_script_by_name after the lookup r: err is "" or the exception that
\* escapes (only FileNotFoundError is caught)
read_script(r) ==
  IF r.ret = None THEN [st |-> r.st, ret |-> None, err |-> ""]
  ELSE LET p == r.ret[1].path
       IN IF p \notin DOMAIN r.st.files
          THEN [st |-> r.st, ret |-> None, err |-> ""]
          ELSE IF ~r.st.files[p].parseable
          THEN [st |-> r.st, ret |-> None, err |-> "ValidationError"]
          ELSE [st |-> r.st, ret |-> Some(from_file(p, r.st.files[p])),
                err |-> ""]

get_script_by_name(st, name) == read_script(get_metadata_by_name(st, name))

\* save that writes the file before it looks whether the path was taken
save_clobbering(st, script, overwrite) ==
  IF script.meta.path \in DOMAIN st.files /\ ~overwrite
  THEN [st |-> [st EXCEPT !.files =
                  DictSet(st.files, script.meta.path, to_file_content(script))],
        err |-> "FileExistsError"]
  ELSE [st |-> [st EXCEPT !.files =
                  DictSet(st.files, script.meta.path, to_file_content(script))],
        err |-> ""]

\* PowerQueryScript.save
save(st, script, overwrite) ==
  IF script.meta.path \in DOMAIN st.files /\ ~overwrite
  THEN [st |-> st, err |-> "FileExistsError"]
  ELSE [st |-> [st EXCEPT !.files =
                  DictSet(st.files, script.meta.path, to_file_content(script))],
        err |-> ""]

\* save_script that keys the cache entry by the name as it is spelled
save_script_exact_key(st, script, overwrite) ==
  LET r == save(st, script, overwrite)
  IN IF r.err # "" THEN r
     ELSE [st |-> [r.st EXCEPT !.index =
                     DictSet(r.st.index, script.meta.name, script.meta)],
           err |-> ""]

\* save_script that leaves the cache to the next rebuild
save_script_without_cache(st, script, overwrite) ==
  save(st, script, overwrite)

save_script(st, script, overwrite) ==
  LET r == save(st, script, overwrite)
  IN IF r.err # "" THEN r
     ELSE [st |-> [r.st EXCEPT !.index =
                     DictSet(r.st.index, lower(script.meta.name), script.meta)],
           err |-> ""]

\* delete_script after the lookup r
remove_script(r) ==
  IF r.ret = None THEN [st |-> r.st, ret |-> FALSE]
  ELSE LET p == r.ret[1].path
       IN IF p \notin DOMAIN r.st.files THEN [st |-> r.st, ret |-> FALSE]
          ELSE [st |-> build_index([r.st EXCEPT !.files = Remove(r.st.files, p)]),
                ret |-> TRUE]

delete_script(st, name) == remove_script(get_metadata_by_name(st, name))

\* "sub in s" on the strings of the universes, which have one character at
\* most (names, keywords) or are empty (the default description)
contains(sub, s) == sub = "" \/ sub = s

\* the condition of search_pq's list comprehension
matches(keyword_lower, meta) ==
  \/ contains(keyword_lower, lower(meta.name))
  \/ contains(keyword_lower, lower(meta.description))
  \/ \E i \in 1..Len(meta.tags) : contains(keyword_lower, lower(meta.tags[i]))

\* search_pq that compares the keyword as it is spelled
search_pq_case_sensitive(st, keyword) ==
  LET st1 == load_index(st, FALSE)
  IN [st |-> st1,
      ret |-> {st1.index[k] : k \in {x \in DOMAIN st1.index :
                                        matches(keyword, st1.index[x])}}]

\* search_pq: the store after load_index(), and the entries returned (as a
\* set: the model does not keep the order of the dict)
search_pq(st, keyword) ==
  LET st1 == load_index(st, FALSE)
  IN [st |-> st1,
      ret |-> {st1.index[k] : k \in {x \in DOMAIN st1.index :
                                        matches(lower(keyword), st1.index[x])}}]

\* position of a string in Python's string order (capitals first)
RawRank(s) ==
  CASE s = "Util" -> 1
    [] s = "data" -> 2
    [] s = "util" -> 3
    [] OTHER -> 0

\* sorted(S) for a set of categories
RECURSIVE sorted(_)
sorted(S) ==
  IF S = {} THEN <<>>
  ELSE LET m == CHOOSE x \in S : \A y \in S : RawRank(x) <= RawRank(y)
       IN <<m>> \o sorted(S \ {m})

\* list_categories: the store after load_index(), and the list returned
list_categories(st) ==
  LET st1 == load_index(st, FALSE)
  IN [st |-> st1,
      ret |-> sorted({st1.index[k].category : k \in DOMAIN st1.index})]

\* ----------------------------------------------------- DependencyResolver
\* state of the cycle check: the sets resolved and visiting, and the name
\* of a raised CircularDependencyError (None while nothing was raised)
DfsStart == [resolved |-> {}, visiting |-> {}, raised |-> None]

RECURSIVE dfs(_, _, _), dfs_loop(_, _, _, _)

\* dfs that returns quietly when it meets a name of the recursion stack
dfs_ignoring_cycles(st, name, s) ==
  IF s.raised # None THEN s
  ELSE IF name \in s.resolved \/ name \in s.visiting THEN s
  ELSE LET meta == get_metadata_by_name(st, name).ret
       IN IF meta = None THEN s
          ELSE LET s1 == dfs_loop(st, meta[1].dependencies, 1,
                                  [s EXCEPT !.visiting = @ \cup {name}])
               IN [s1 EXCEPT !.visiting = @ \ {name},
                             !.resolved = @ \cup {name}]

\* dfs(name) of get_insertion_order; an exception ends every enclosing loop
dfs(st, name, s) ==
  IF s.raised # None THEN s
  ELSE IF name \in s.resolved THEN s
  ELSE IF name \in s.visiting THEN [s EXCEPT !.raised = Some(name)]
  ELSE LET meta == get_metadata_by_name(st, name).ret
       IN IF meta = None THEN s
          ELSE LET s1 == dfs_loop(st, meta[1].dependencies, 1,
                                  [s EXCEPT !.visiting = @ \cup {name}])
               IN IF s1.raised # None THEN s1
                  ELSE [s1 EXCEPT !.visiting = @ \ {name},
                                  !.resolved = @ \cup {name}]

\* for n in names: dfs(n)   (dfs itself returns at once on a resolved name)
dfs_loop(st, names, i, s) ==
  IF i > Len(names) \/ s.raised # None THEN s
  ELSE dfs_loop(st, names, i + 1, dfs(st, names[i], s))

OrderStart == [visited |-> {}, ordered_list |-> <<>>]

RECURSIVE dfs_for_order(_, _, _), order_loop(_, _, _, _)

\* dfs_for_order that appends the name before it visits the dependencies
dfs_for_order_preorder(st, name, o) ==
  LET o1 == [o EXCEPT !.visited = @ \cup {name}]
      meta == get_metadata_by_name(st, name).ret
  IN IF meta = None THEN o1
     ELSE order_loop(st, meta[1].dependencies, 1,
                     [o1 EXCEPT !.ordered_list = Append(@, name)])

\* dfs_for_order that gives up a name whose dependency has no script
dfs_for_order_dropping(st, name, o) ==
  LET o1 == [o EXCEPT !.visited = @ \cup {name}]
      meta == get_metadata_by_name(st, name).ret
  IN IF meta = None THEN o1
     ELSE LET o2 == order_loop(st, meta[1].dependencies, 1, o1)
          IN IF \E i \in 1..Len(meta[1].dependencies) :
                  get_metadata_by_name(st, meta[1].dependencies[i]).ret = None
             THEN o2
             ELSE [o2 EXCEPT !.ordered_list = Append(@, name)]

dfs_for_order(st, name, o) ==
  LET o1 == [o EXCEPT !.visited = @ \cup {name}]
      meta == get_metadata_by_name(st, name).ret
  IN IF meta = None THEN o1
     ELSE LET o2 == order_loop(st, meta[1].dependencies, 1, o1)
          IN [o2 EXCEPT !.ordered_list = Append(@, name)]

\* for n in names: if n not in visited: dfs_for_order(n)
order_loop(st, names, i, o) ==
  IF i > Len(names) THEN o
  ELSE order_loop(st, names, i + 1,
                  IF names[i] \notin o.visited
                  THEN dfs_for_order(st, names[i], o) ELSE o)

\* [x for x in list if x in keep]
RECURSIVE filter_in(_, _)
filter_in(list, keep) ==
  IF list = <<>> THEN <<>>
  ELSE IF Head(list) \in keep THEN <<Head(list)>> \o filter_in(Tail(list), keep)
  ELSE filter_in(Tail(list), keep)

\* the orders in which a dict with these keys can be iterated
IterationOrders(keys) ==
  {f \in [1..Cardinality(keys) -> keys] :
     \A i, j \in 1..Cardinality(keys) : f[i] = f[j] => i = j}

\* graph[meta.name] = meta.dependencies, for meta in self.store._index.values()
RECURSIVE build_graph(_, _, _, _)
build_graph(idx, iteration, i, graph) ==
  IF i > Len(iteration) THEN graph
  ELSE build_graph(idx, iteration, i + 1,
                   DictSet(graph, idx[iteration[i]].name,
                           idx[iteration[i]].dependencies))

\* get_insertion_order that lists the resolved names in the order in which
\* the index map yields them
get_insertion_order_in_map_order(st, names, iteration) ==
  LET st1 == load_index(st, FALSE)
      s1 == dfs_loop(st1, names, 1, DfsStart)
      keys == [i \in 1..Len(iteration) |-> st1.index[iteration[i]].name]
  IN IF s1.raised # None
     THEN [st |-> st1, ret |-> <<>>, err |-> "CircularDependencyError"]
     ELSE [st |-> st1, ret |-> filter_in(keys, s1.resolved), err |-> ""]

\* get_insertion_order; iteration is the order in which _index.values()
\* yields the entries.  err names the exception that escapes ("" for none).
get_insertion_order(st, names, iteration) ==
  LET st1 == load_index(st, FALSE)
      graph == build_graph(st1.index, iteration, 1, EmptyIndex)
      s1 == dfs_loop(st1, names, 1, DfsStart)
      s2 == dfs_loop(st1, names, 1, s1)
      o == order_loop(st1, names, 1, OrderStart)
  IN IF s1.raised # None \/ s2.raised # None
     THEN [st |-> st1, ret |-> <<>>, err |-> "CircularDependencyError"]
     ELSE [st |-> st1, ret |-> filter_in(o.ordered_list, s2.resolved),
           err |-> ""]

\* {"name": name, "children": []}
Leaf(name) == [name |-> name, children |-> <<>>]

\* state of get_dependency_tree: the set visited, and whether the nesting
\* of build_tree went past MaxDepth
TreeStart == [visited |-> {}, raised |-> FALSE]

RECURSIVE build_tree(_, _, _, _), build_children(_, _, _, _, _)

\* build_tree without the set visited
build_tree_unguarded(st, current_name, depth, t) ==
  IF depth > MaxDepth
  THEN [node |-> Leaf(current_name), visited |-> t.visited, raised |-> TRUE]
  ELSE LET meta == get_metadata_by_name(st, current_name).ret
       IN IF meta = None \/ meta[1].dependencies = <<>>
          THEN [node |-> Leaf(current_name), visited |-> t.visited,
                raised |-> FALSE]
          ELSE build_children(st, meta[1].dependencies, 1, depth + 1,
                              [node |-> Leaf(current_name),
                               visited |-> t.visited, raised |-> FALSE])

\* build_tree(current_node_dict, current_name): the node filled in
build_tree(st, current_name, depth, t) ==
  IF depth > MaxDepth
  THEN [node |-> Leaf(current_name), visited |-> t.visited, raised |-> TRUE]
  ELSE IF current_name \in t.visited
  THEN [node |-> Leaf(current_name), visited |-> t.visited, raised |-> FALSE]
  ELSE LET meta == get_metadata_by_name(st, current_name).ret
           visited == t.visited \cup {current_name}
       IN IF meta = None \/ meta[1].dependencies = <<>>
          THEN [node |-> Leaf(current_name), visited |-> visited,
                raised |-> FALSE]
          ELSE build_children(st, meta[1].dependencies, 1, depth + 1,
                              [node |-> Leaf(current_name),
                               visited |-> visited, raised |-> FALSE])

\* for dep_name in meta.dependencies: append a child node and recurse
build_children(st, dependencies, i, depth, acc) ==
  IF i > Len(dependencies) \/ acc.raised THEN acc
  ELSE LET r == build_tree(st, dependencies[i], depth,
                           [visited |-> acc.visited, raised |-> FALSE])
       IN build_children(st, dependencies, i + 1, depth,
            [node |-> [acc.node EXCEPT !.children = Append(@, r.node)],
             visited |-> r.visited, raised |-> r.raised])

\* the outcome of get_dependency_tree after build_tree returned r
tree_outcome(st, r) ==
  IF r.raised THEN [st |-> st, ret |-> None, err |-> "RecursionError"]
  ELSE [st |-> st, ret |-> Some(r.node), err |-> ""]

get_dependency_tree(st, name) ==
  tree_outcome(load_index(st, FALSE),
               build_tree(load_index(st, FALSE), name, 1, TreeStart))

\* ------------------------------------------------------------- PQManager
\* for name in names_in_order: script = get_script_by_name(name) ...
RECURSIVE fetch_scripts(_, _, _, _)
fetch_scripts(st, names_in_order, i, scripts_to_insert) ==
  IF i > Len(names_in_order) THEN [scripts |-> scripts_to_insert, err |-> ""]
  ELSE LET r == get_script_by_name(st, names_in_order[i])
       IN IF r.err # "" THEN [scripts |-> <<>>, err |-> r.err]
          ELSE IF r.ret = None
          THEN [scripts |-> <<>>, err |-> "FileNotFoundError"]
          ELSE fetch_scripts(st, names_in_order, i + 1,
                             Append(scripts_to_insert, r.ret[1]))

\* step 3 of insert_into_excel: handed is what insert_queries_into_workbook
\* received (None when it was not called)
hand_over(st, f) ==
  IF f.err # "" THEN [st |-> st, err |-> f.err, handed |-> None]
  ELSE [st |-> st, err |-> "", handed |-> Some(f.scripts)]

\* step 2 of insert_into_excel, o being the outcome of get_insertion_order
fetch_and_hand_over(o) ==
  IF o.err # "" THEN [st |-> o.st, err |-> o.err, handed |-> None]
  ELSE hand_over(o.st, fetch_scripts(o.st, o.ret, 1, <<>>))

insert_into_excel(st, names, iteration) ==
  fetch_and_hand_over(get_insertion_order(st, names, iteration))

\* ------------------------------------------ the legacy XLPowerQueryHandler
\* XLPowerQueryHandler.read_index: the rows of index.json, [] when the file
\* is missing or cannot be parsed
read_index(st) ==
  IF st.idxFile.exists /\ st.idxFile.ok THEN st.idxFile.data ELSE <<>>

\* get_pq_metadata_by_name: the first row whose name is the same in lower
\* case.  load_index() has filled the cache with read_index() whenever the
\* cache was empty or older than index.json.
get_pq_metadata_by_name(st, name) ==
  LET rows == read_index(st)
      hits == {i \in 1..Len(rows) : lower(rows[i].name) = lower(name)}
  IN IF hits = {} THEN None
     ELSE Some(rows[CHOOSE i \in hits : \A j \in hits : i <= j])

\* parse_pq_file: the entry read from the file itself
parse_pq_file(p, content) == from_file(p, content).meta

\* get_pq_by_name: None when the name is not in the index, or its file is gone
get_pq_by_name(st, name) ==
  LET metadata == get_pq_metadata_by_name(st, name)
  IN IF metadata = None THEN None
     ELSE IF metadata[1].path \notin DOMAIN st.files THEN None
     ELSE Some(parse_pq_file(metadata[1].path, st.files[metadata[1].path]))

RECURSIVE insert_into_workbook(_, _, _, _, _), insert_dependencies(_, _, _, _, _, _)

\* _insert_into_workbook(wb_api, name, inserted_cache), at this nesting of
\* calls: what it returns and the cache it leaves, or raised when the
\* nesting goes past MaxDepth (RecursionError).  refused holds the names
\* for which the workbook raises in Queries.Add.
insert_into_workbook(st, refused, name, inserted_cache, depth) ==
  IF depth > MaxDepth
  THEN [ok |-> FALSE, cache |-> inserted_cache, raised |-> TRUE]
  ELSE IF name \in inserted_cache
  THEN [ok |-> TRUE, cache |-> inserted_cache, raised |-> FALSE]
  ELSE LET entry == get_pq_by_name(st, name)
       IN IF entry = None
          THEN [ok |-> FALSE, cache |-> inserted_cache, raised |-> FALSE]
          ELSE LET d == insert_dependencies(st, refused, entry[1].dependencies,
                                            1, inserted_cache, depth + 1)
               IN IF d.raised \/ ~d.ok THEN d
                  ELSE IF entry[1].name \in refused
                  THEN [ok |-> FALSE, cache |-> d.cache, raised |-> FALSE]
                  ELSE [ok |-> TRUE, cache |-> d.cache \cup {name},
                        raised |-> FALSE]

\* for dep_name in entry.get("dependencies", []), from the i-th on
insert_dependencies(st, refused, deps, i, inserted_cache, depth) ==
  IF i > Len(deps)
  THEN [ok |-> TRUE, cache |-> inserted_cache, raised |-> FALSE]
  ELSE IF deps[i] \in inserted_cache
  THEN insert_dependencies(st, refused, deps, i + 1, inserted_cache, depth)
  ELSE LET r == insert_into_workbook(st, refused, deps[i], inserted_cache, depth)
       IN IF r.raised \/ ~r.ok
          THEN [ok |-> FALSE, cache |-> r.cache, raised |-> r.raised]
          ELSE insert_dependencies(st, refused, deps, i + 1, r.cache, depth)

RECURSIVE batch_loop(_, _, _, _, _)

\* for name in names, from the i-th on; acc holds inserted_cache and results
batch_loop(st, refused, names, i, acc) ==
  IF i > Len(names) THEN acc
  ELSE IF names[i] \in acc.inserted
  THEN batch_loop(st, refused, names, i + 1, acc)
  ELSE LET r == insert_into_workbook(st, refused, names[i], acc.inserted, 1)
       IN IF r.raised
          THEN [acc EXCEPT !.inserted = r.cache, !.err = "RecursionError"]
          ELSE IF r.ok
          THEN batch_loop(st, refused, names, i + 1,
                 [acc EXCEPT !.inserted = r.cache,
                             !.success = Append(acc.success, names[i])])
          ELSE batch_loop(st, refused, names, i + 1,
                 [acc EXCEPT !.inserted = r.cache,
                             !.failed = Append(acc.failed, names[i])])

\* insert_pqs_batch(names) on the active workbook: the dict it returns, or
\* the exception that escapes (there is a finally and no except)
insert_pqs_batch(st, refused, names) ==
  batch_loop(st, refused, names, 1,
             [inserted |-> {}, success |-> <<>>, failed |-> <<>>, err |-> ""])

\* insert_pq_into_active_excel(name): the names inserted, or the exception
insert_pq_into_active_excel(st, refused, name) ==
  LET r == insert_into_workbook(st, refused, name, {}, 1)
  IN IF r.raised THEN [inserted |-> r.cache, err |-> "RecursionError"]
     ELSE IF r.ok THEN [inserted |-> r.cache, err |-> ""]
     ELSE [inserted |-> r.cache, err |-> "RuntimeError"]

\* steps 3 to 5 of update_query_metadata, g being the script read in step 1
save_and_rebuild(old_path, g, new_meta) ==
  IF g.err # "" THEN [st |-> g.st, err |-> g.err]
  ELSE IF g.ret = None THEN [st |-> g.st, err |-> "FileNotFoundError"]
  ELSE LET new_script == PowerQueryScript(new_meta, g.ret[1].body)
           saved == save_script(g.st, new_script, TRUE).st
       IN [st |-> build_index(
                    IF old_path # new_meta.path
                    THEN [saved EXCEPT !.files = Remove(saved.files, old_path)]
                    ELSE saved),
           err |-> ""]

\* update_query_metadata after the lookup m of old_name
update_found(m, old_name, new_meta) ==
  IF m.ret = None THEN [st |-> m.st, err |-> "FileNotFoundError"]
  ELSE save_and_rebuild(m.ret[1].path, get_script_by_name(m.st, old_name),
                        new_meta)

update_query_metadata(st, old_name, new_meta) ==
  update_found(get_metadata_by_name(st, old_name), old_name, new_meta)

\* ----------------------------------------------------------- the machine
\* In the actions, "\E r \in {call}" binds the outcome of the call once.
\* the record kept of the last call
NoCall ==
  [op |-> "init", name |-> "", names |-> <<>>, script |-> None,
   overwrite |-> FALSE, err |-> "", flag |-> FALSE, found |-> None,
   ret |-> <<>>, handed |-> None, hits |-> {}, tree |-> None,
   text |-> <<>>, tokens |-> <<>>, failed |-> <<>>]

SetStore(st) ==
  /\ files' = st.files
  /\ idxFile' = st.idxFile
  /\ idxNewer' = st.idxNewer
  /\ index' = st.index

\* PQFileStore.__init__ on a directory with these files and no index.json
Constructed(fs) ==
  load_index([files |-> fs, idxFile |-> NoIndexFile, idxNewer |-> FALSE,
              index |-> EmptyIndex], FALSE)

\* the dependency lists of the scripts saved in the store specification
StoreDeps == {<<>>}

ScriptInputs ==
  {PowerQueryScript(PowerQueryMetadata(n, c, d, p), b) :
     n \in StoreNames, c \in Categories, d \in StoreDeps, p \in Paths,
     b \in Bodies}

\* no thread besides the caller's
NoReaders == [th |-> <<>>, store0 |-> <<>>, stamped |-> FALSE]

StartStore(st) ==
  /\ files = st.files
  /\ idxFile = st.idxFile
  /\ idxNewer = st.idxNewer
  /\ index = st.index
  /\ readers = NoReaders

\* an empty library directory, and a store constructed on it
Init ==
  /\ StartStore(Constructed(EmptyIndex))
  /\ last = NoCall

SaveScript(script, overwrite) ==
  /\ UNCHANGED readers
  /\ \E r \in {save_script(Store, script, overwrite)} :
        /\ SetStore(r.st)
        /\ last' = [NoCall EXCEPT !.op = "save_script", !.script = Some(script),
                                   !.overwrite = overwrite, !.err = r.err]

DeleteScript(name) ==
  /\ UNCHANGED readers
  /\ \E r \in {delete_script(Store, name)} :
        /\ SetStore(r.st)
        /\ last' = [NoCall EXCEPT !.op = "delete_script", !.name = name,
                                   !.flag = r.ret]

BuildIndex ==
  /\ SetStore(build_index(Store))
  /\ last' = [NoCall EXCEPT !.op = "build_index"]
  /\ UNCHANGED readers

GetMetadataByName(name) ==
  /\ UNCHANGED readers
  /\ \E r \in {get_metadata_by_name(Store, name)} :
        /\ SetStore(r.st)
        /\ last' = [NoCall EXCEPT !.op = "get_metadata_by_name", !.name = name,
                                   !.found = r.ret]

\* the keywords searched for
Keywords == {"A", "b"}

SearchPq(keyword) ==
  /\ UNCHANGED readers
  /\ \E r \in {search_pq(Store, keyword)} :
        /\ SetStore(r.st)
        /\ last' = [NoCall EXCEPT !.op = "search_pq", !.name = keyword,
                                   !.hits = r.ret]

ListCategories ==
  /\ UNCHANGED readers
  /\ \E r \in {list_categories(Store)} :
        /\ SetStore(r.st)
        /\ last' = [NoCall EXCEPT !.op = "list_categories", !.ret = r.ret]

UpdateQueryMetadata(old_name, new_meta) ==
  /\ UNCHANGED readers
  /\ \E r \in {update_query_metadata(Store, old_name, new_meta)} :
        /\ SetStore(r.st)
        /\ last' = [NoCall EXCEPT !.op = "update_query_metadata",
                                   !.name = old_name,
                                   !.script = Some(PowerQueryScript(new_meta, "")),
                                   !.err = r.err]

\* the library directory and index.json are also changed from outside the
\* store: an editor or another process removes or damages a script file,
\* deletes or damages index.json, or rebuilds it from the current files
ExternalRemoveFile(p) ==
  /\ p \in DOMAIN files
  /\ files' = Remove(files, p)
  /\ last' = [NoCall EXCEPT !.op = "external"]
  /\ UNCHANGED <<idxFile, idxNewer, index>>
  /\ UNCHANGED readers

ExternalDamageFile(p) ==
  /\ p \in DOMAIN files
  /\ files[p] # Unparseable
  /\ files' = DictSet(files, p, Unparseable)
  /\ last' = [NoCall EXCEPT !.op = "external"]
  /\ UNCHANGED <<idxFile, idxNewer, index>>
  /\ UNCHANGED readers

ExternalRemoveIndex ==
  /\ idxFile.exists
  /\ idxFile' = NoIndexFile
  /\ last' = [NoCall EXCEPT !.op = "external"]
  /\ UNCHANGED <<files, idxNewer, index>>
  /\ UNCHANGED readers

ExternalDamageIndex ==
  /\ idxFile' = CorruptIndexFile
  /\ idxNewer' = TRUE
  /\ last' = [NoCall EXCEPT !.op = "external"]
  /\ UNCHANGED <<files, index>>
  /\ UNCHANGED readers

ExternalRebuildIndex ==
  /\ idxFile' = IndexFile(sort_records(<<>>, walk(files, 1), 1))
  /\ idxNewer' = TRUE
  /\ last' = [NoCall EXCEPT !.op = "external"]
  /\ UNCHANGED <<files, index>>
  /\ UNCHANGED readers

Next ==
  \/ \E script \in ScriptInputs, overwrite \in BOOLEAN :
       SaveScript(script, overwrite)
  \/ \E name \in StoreNames : DeleteScript(name)
  \/ BuildIndex
  \/ \E name \in StoreNames : GetMetadataByName(name)
  \/ \E keyword \in Keywords : SearchPq(keyword)
  \/ ListCategories
  \/ \E old_name \in StoreNames, script \in ScriptInputs :
       UpdateQueryMetadata(old_name, script.meta)
  \/ \E p \in Paths : ExternalRemoveFile(p)
  \/ \E p \in Paths : ExternalDamageFile(p)
  \/ ExternalRemoveIndex
  \/ ExternalDamageIndex
  \/ ExternalRebuildIndex

Spec == Init /\ [][Next]_vars

\* ---------------------------------------------- the index builder's machine
\* names and categories of the files that build_index finds
BuildNames == {"a", "A", "b"}
BuildCategories == {"util", "Util", "data"}

\* what a directory holds at one path: nothing, a file that fails to parse,
\* or a script file
DirEntries ==
  {None, Some(Unparseable)} \cup
  {Some(to_file_content(PowerQueryScript(PowerQueryMetadata(n, c, <<>>, 0), "let"))) :
     n \in BuildNames, c \in BuildCategories}

Directory(entries) ==
  [p \in {q \in Paths : entries[q] # None} |-> entries[p][1]]

\* a store constructed on any directory
InitBuild ==
  /\ \E entries \in [Paths -> DirEntries] :
       StartStore(Constructed(Directory(entries)))
  /\ last = NoCall

\* the index is rebuilt again and again while files are removed or damaged
NextBuild ==
  \/ BuildIndex
  \/ \E p \in Paths : ExternalRemoveFile(p)
  \/ \E p \in Paths : ExternalDamageFile(p)

SpecBuild == InitBuild /\ [][NextBuild]_vars

\* ------------------------------------------------ the cache's machine
\* load_index assigns _index_load_time only behind json.load and the loop
\* over its items; behind build_index it is the forced reload of the file
\* just written that assigns it
records_load_time_when_stale(st, force_reload) ==
  force_reload \/ is_index_stale(st)

records_load_time(st, force_reload) ==
  /\ force_reload \/ is_index_stale(st)
  /\ st.idxFile.exists => st.idxFile.ok

\* load_index() called alone; hits keeps the keys cached at the call
LoadIndex ==
  /\ UNCHANGED readers
  /\ SetStore(load_index(Store, FALSE))
  /\ last' = [NoCall EXCEPT !.op = "load_index",
                             !.hits = DOMAIN index,
                             !.flag = records_load_time(Store, FALSE)]

\* load_index is called again and again on a store constructed on any
\* directory, while files and index.json are changed from outside
NextLoad ==
  \/ LoadIndex
  \/ \E p \in Paths : ExternalRemoveFile(p)
  \/ ExternalRemoveIndex
  \/ ExternalDamageIndex
  \/ ExternalRebuildIndex

SpecLoad == InitBuild /\ [][NextLoad]_vars

\* the cache is fresh: load_index() returns at once
Fresh == DOMAIN index # {} /\ idxFile.exists /\ ~idxNewer

Untouched ==
  /\ index' = index /\ idxFile' = idxFile /\ idxNewer' = idxNewer
  /\ files' = files /\ ~last'.flag

Threads == 1..NumThreads

\* a thread outside any call
Idle == [pc |-> "idle", op |-> "", arg |-> "", ret |-> <<>>, data |-> <<>>, i |-> 0]

\* the library the threads' store is constructed on
ReaderLibrary ==
  (1 :> to_file_content(PowerQueryScript(PowerQueryMetadata("a", "util", <<>>, 0), "let")))
    @@ (2 :> to_file_content(PowerQueryScript(PowerQueryMetadata("b", "util", <<>>, 0), "let")))

\* the stores the threads start on: as constructed, on the library or on
\* an empty directory, or with index.json removed, damaged or rewritten
\* from outside since
ReaderStores ==
  {Constructed(ReaderLibrary), Constructed(EmptyIndex),
   [Constructed(ReaderLibrary) EXCEPT !.idxFile = NoIndexFile],
   [Constructed(ReaderLibrary) EXCEPT !.idxFile = CorruptIndexFile, !.idxNewer = TRUE],
   [Constructed(ReaderLibrary) EXCEPT !.idxNewer = TRUE]}

\* the calls of the threads: a search and a lookup that find a script,
\* and a lookup that finds none
ReaderCalls ==
  {[op |-> "search_pq", arg |-> "A"],
   [op |-> "get_metadata_by_name", arg |-> "B"],
   [op |-> "get_metadata_by_name", arg |-> "c"]}

InitReaders ==
  /\ \E st \in ReaderStores :
       /\ files = st.files
       /\ idxFile = st.idxFile
       /\ idxNewer = st.idxNewer
       /\ index = st.index
       /\ readers = [th |-> [t \in Threads |-> Idle], store0 |-> st,
                     stamped |-> FALSE]
  /\ last = NoCall

\* thread t moves to pc
Goto(t, pc) == readers' = [readers EXCEPT !.th[t].pc = pc]

\* thread t calls search_pq(arg) or get_metadata_by_name(arg), which both
\* begin with self.load_index()
Call(t, call) ==
  /\ readers.th[t].pc = "idle"
  /\ readers' = [readers EXCEPT !.th[t] =
                   [Idle EXCEPT !.pc = "stale_index", !.op = call.op, !.arg = call.arg]]
  /\ UNCHANGED <<files, idxFile, idxNewer, index, last>>

\* is_index_stale that returns True whatever the cache holds
StaleIndex_always_stale(t) ==
  /\ readers.th[t].pc = "stale_index"
  /\ Goto(t, "clear")
  /\ UNCHANGED <<files, idxFile, idxNewer, index, last>>

\* is_index_stale: if not self._index: return True
StaleIndex(t) ==
  /\ readers.th[t].pc = "stale_index"
  /\ Goto(t, IF DOMAIN index = {} THEN "clear" ELSE "stale_exists")
  /\ UNCHANGED <<files, idxFile, idxNewer, index, last>>

\* is_index_stale: if not os.path.exists(self.index_path): return True
StaleExists(t) ==
  /\ readers.th[t].pc = "stale_exists"
  /\ Goto(t, IF ~idxFile.exists THEN "clear" ELSE "stale_mtime")
  /\ UNCHANGED <<files, idxFile, idxNewer, index, last>>

\* is_index_stale: return getmtime(self.index_path) > self._index_load_time
StaleMtime(t) ==
  /\ readers.th[t].pc = "stale_mtime"
  /\ Goto(t, IF ~idxFile.exists \/ idxNewer THEN "clear" ELSE "read")
  /\ UNCHANGED <<files, idxFile, idxNewer, index, last>>

\* load_index: self._index = {}
Clear(t) ==
  /\ readers.th[t].pc = "clear"
  /\ index' = EmptyIndex
  /\ Goto(t, "load_exists")
  /\ UNCHANGED <<files, idxFile, idxNewer, last>>

\* load_index: if not os.path.exists(self.index_path)
LoadExists(t) ==
  /\ readers.th[t].pc = "load_exists"
  /\ Goto(t, IF ~idxFile.exists THEN "build" ELSE "open")
  /\ UNCHANGED <<files, idxFile, idxNewer, index, last>>

\* build_index: walks the tree and writes index.json; it goes on with
\* load_index(force_reload=True)
Build(t) ==
  /\ readers.th[t].pc = "build"
  /\ idxFile' = IndexFile(sort_records(<<>>, walk(files, 1), 1))
  /\ idxNewer' = TRUE
  /\ Goto(t, "clear")
  /\ UNCHANGED <<files, index, last>>

\* load_index: data = json.load(f); an exception ends the load
Open(t) ==
  /\ readers.th[t].pc = "open"
  /\ readers' = IF idxFile.exists /\ idxFile.ok
                THEN [readers EXCEPT !.th[t].pc = "fill",
                                     !.th[t].data = idxFile.data, !.th[t].i = 1]
                ELSE [readers EXCEPT !.th[t].pc = "read"]
  /\ UNCHANGED <<files, idxFile, idxNewer, index, last>>

\* load_index: self._index[meta.name.lower()] = meta, for one item
FillItem(t) ==
  /\ readers.th[t].pc = "fill"
  /\ readers.th[t].i <= Len(readers.th[t].data)
  /\ index' = DictSet(index, lower(readers.th[t].data[readers.th[t].i].name),
                      readers.th[t].data[readers.th[t].i])
  /\ readers' = [readers EXCEPT !.th[t].i = @ + 1]
  /\ UNCHANGED <<files, idxFile, idxNewer, last>>

\* load_index: self._index_load_time = time.time()
Stamp(t) ==
  /\ readers.th[t].pc = "fill"
  /\ readers.th[t].i > Len(readers.th[t].data)
  /\ idxNewer' = FALSE
  /\ readers' = [readers EXCEPT !.th[t].pc = "read", !.th[t].data = <<>>,
                                 !.th[t].i = 0, !.stamped = TRUE]
  /\ UNCHANGED <<files, idxFile, index, last>>

\* the look at the cache with the name as it is spelled
looked_up_as_spelled(op, arg, idx) ==
  IF op = "search_pq"
  THEN {idx[k] : k \in {x \in DOMAIN idx : matches(arg, idx[x])}}
  ELSE IF arg \in DOMAIN idx THEN Some(idx[arg]) ELSE None

\* what the call of thread t finds in the cache
looked_up(op, arg, idx) ==
  IF op = "search_pq"
  THEN {idx[k] : k \in {x \in DOMAIN idx : matches(lower(arg), idx[x])}}
  ELSE IF lower(arg) \in DOMAIN idx THEN Some(idx[lower(arg)]) ELSE None

\* the call looks at self._index and returns
Read(t) ==
  /\ readers.th[t].pc = "read"
  /\ readers' = [readers EXCEPT !.th[t].pc = "done",
                   !.th[t].ret = looked_up(readers.th[t].op, readers.th[t].arg, index)]
  /\ UNCHANGED <<files, idxFile, idxNewer, index, last>>

\* the caller has the result; the thread is free for another call
Return(t) ==
  /\ readers.th[t].pc = "done"
  /\ readers' = [readers EXCEPT !.th[t] = Idle]
  /\ UNCHANGED <<files, idxFile, idxNewer, index, last>>

NextReaders ==
  \/ \E t \in Threads, call \in ReaderCalls : Call(t, call)
  \/ \E t \in Threads : StaleIndex(t)
  \/ \E t \in Threads : StaleExists(t)
  \/ \E t \in Threads : StaleMtime(t)
  \/ \E t \in Threads : Clear(t)
  \/ \E t \in Threads : LoadExists(t)
  \/ \E t \in Threads : Build(t)
  \/ \E t \in Threads : Open(t)
  \/ \E t \in Threads : FillItem(t)
  \/ \E t \in Threads : Stamp(t)
  \/ \E t \in Threads : Read(t)
  \/ \E t \in Threads : Return(t)

SpecReaders == InitReaders /\ [][NextReaders]_vars

\* --------------------------------------------------- script files as text
\* A text is a sequence of symbols: "---" (three dashes), "\n", "x" (any
\* other character), "!" (text that YAML rejects), and what yaml.safe_dump
\* writes around the values: the keys, "-" before a list item, "[]" for an
\* empty list, "''" for an empty string.  A string value is a text too.
ScalarKeys == {"name:", "category:", "description:", "version:"}
ListKeys == {"tags:", "dependencies:"}
YamlMarks == ScalarKeys \cup ListKeys \cup {"-", "[]", "''", "!"}

\* position of the first sym in text at or after from (0: none)
RECURSIVE find(_, _, _)
find(text, sym, from) ==
  IF from > Len(text) THEN 0
  ELSE IF text[from] = sym THEN from
  ELSE find(text, sym, from + 1)

\* text.split("---", 2)
split(text) ==
  LET i == find(text, "---", 1)
      j == IF i = 0 THEN 0 ELSE find(text, "---", i + 1)
  IN IF i = 0 THEN <<text>>
     ELSE IF j = 0 THEN <<SubSeq(text, 1, i - 1), SubSeq(text, i + 1, Len(text))>>
     ELSE <<SubSeq(text, 1, i - 1), SubSeq(text, i + 1, j - 1),
            SubSeq(text, j + 1, Len(text))>>

\* text.lstrip(chars)
RECURSIVE lstrip(_, _)
lstrip(text, chars) ==
  IF text # <<>> /\ Head(text) \in chars THEN lstrip(Tail(text), chars)
  ELSE text

\* yaml.safe_dump of one value
dump_scalar(v) == IF v = <<>> THEN <<"''">> ELSE v

RECURSIVE dump_items(_, _)
dump_items(list, i) ==
  IF i > Len(list) THEN <<>>
  ELSE <<"\n", "-">> \o list[i] \o dump_items(list, i + 1)

dump_list(list) == IF list = <<>> THEN <<"[]">> ELSE dump_items(list, 1)

\* yaml.safe_dump(meta.model_dump(exclude={'path'}), sort_keys=False)
safe_dump(meta) ==
  <<"name:">> \o dump_scalar(meta.name) \o <<"\n">> \o
  <<"category:">> \o dump_scalar(meta.category) \o <<"\n">> \o
  <<"tags:">> \o dump_list(meta.tags) \o <<"\n">> \o
  <<"dependencies:">> \o dump_list(meta.dependencies) \o <<"\n">> \o
  <<"description:">> \o dump_scalar(meta.description) \o <<"\n">> \o
  <<"version:">> \o dump_scalar(meta.version) \o <<"\n">>

\* PowerQueryScript.to_file_content, as text
to_file_content_text(script) ==
  <<"---", "\n">> \o safe_dump(script.meta) \o <<"---", "\n", "\n">> \o script.body

\* YAML's null, Python's None: no text holds the symbol "None"
Null == <<"None">>

\* the field that a key of the front-matter sets
key_name(sym) ==
  CASE sym = "name:" -> "name"
    [] sym = "category:" -> "category"
    [] sym = "tags:" -> "tags"
    [] sym = "dependencies:" -> "dependencies"
    [] sym = "description:" -> "description"
    [] sym = "version:" -> "version"

\* where the line that holds position i ends
line_end(y, i) ==
  IF find(y, "\n", i) = 0 THEN Len(y) + 1 ELSE find(y, "\n", i)

\* the value that YAML reads from the rest of a line
load_scalar(v) ==
  IF v = <<>> THEN Null ELSE IF v = <<"''">> THEN <<>> ELSE v

plain(v) == v = <<"''">> \/ \A k \in 1..Len(v) : v[k] \notin YamlMarks

RECURSIVE load_entries(_, _, _), load_items(_, _, _, _, _)

\* the entries of a YAML mapping from position i on
load_entries(y, i, d) ==
  IF i > Len(y) THEN [ok |-> TRUE, dict |-> d]
  ELSE IF y[i] = "\n" THEN load_entries(y, i + 1, d)
  ELSE IF y[i] \in ScalarKeys
  THEN IF plain(SubSeq(y, i + 1, line_end(y, i + 1) - 1))
       THEN load_entries(y, line_end(y, i + 1),
              DictSet(d, key_name(y[i]),
                      load_scalar(SubSeq(y, i + 1, line_end(y, i + 1) - 1))))
       ELSE [ok |-> FALSE, dict |-> d]
  ELSE IF y[i] \in ListKeys
  THEN IF i + 1 <= Len(y) /\ y[i + 1] = "[]"
       THEN load_entries(y, i + 2, DictSet(d, key_name(y[i]), <<>>))
       ELSE load_items(y, i + 1, key_name(y[i]), <<>>, d)
  ELSE [ok |-> FALSE, dict |-> d]

\* the items of a YAML list, each on a line of its own after "-"
load_items(y, i, k, items, d) ==
  IF i + 1 <= Len(y) /\ y[i] = "\n" /\ y[i + 1] = "-"
  THEN IF plain(SubSeq(y, i + 2, line_end(y, i + 2) - 1))
       THEN load_items(y, line_end(y, i + 2), k,
              Append(items, load_scalar(SubSeq(y, i + 2, line_end(y, i + 2) - 1))),
              d)
       ELSE [ok |-> FALSE, dict |-> d]
  ELSE load_entries(y, i, DictSet(d, k, IF items = <<>> THEN Null ELSE items))

\* what becomes of loaded entries: a mapping, or a YAMLError
loaded_mapping(r) ==
  IF r.ok THEN [kind |-> "mapping", dict |-> r.dict]
  ELSE [kind |-> "error", dict |-> EmptyIndex]

\* whether the document is a plain scalar, or a list of plain scalars
is_value(y) ==
  \/ \A k \in 1..Len(y) : y[k] \notin YamlMarks
  \/ /\ Head(lstrip(y, {"\n"})) = "-"
     /\ \A k \in 1..Len(y) : y[k] \notin ScalarKeys \cup ListKeys \cup {"[]", "''"}

\* yaml.safe_load: a mapping, a value that is no mapping (a scalar or a
\* list), None for a blank document, or a YAMLError
safe_load(y) ==
  IF \E k \in 1..Len(y) : y[k] = "!" THEN [kind |-> "error", dict |-> EmptyIndex]
  ELSE IF \A k \in 1..Len(y) : y[k] = "\n" THEN [kind |-> "null", dict |-> EmptyIndex]
  ELSE IF is_value(y) THEN [kind |-> "value", dict |-> EmptyIndex]
  ELSE loaded_mapping(load_entries(y, 1, EmptyIndex))

\* the field of PowerQueryMetadata(**fm_dict): the entry, or the default
field(fm_dict, k, default) == IF k \in DOMAIN fm_dict THEN fm_dict[k] ELSE default

\* PowerQueryMetadata(**fm_dict) and cls(meta=metadata, body=body): None
\* for a field, or for an item of a list, fails the validation
validated(fm_dict, body) ==
  IF \/ \E k \in DOMAIN fm_dict \ {"path"} : fm_dict[k] = Null
     \/ \E k \in DOMAIN fm_dict \cap {"tags", "dependencies"} :
          \E n \in 1..Len(fm_dict[k]) : fm_dict[k][n] = Null
  THEN [ret |-> None, err |-> "ValidationError"]
  ELSE [ret |-> Some([meta |-> [name |-> fm_dict["name"],
                                category |-> field(fm_dict, "category", <<"Uncategorized">>),
                                tags |-> field(fm_dict, "tags", <<>>),
                                dependencies |-> field(fm_dict, "dependencies", <<>>),
                                description |-> field(fm_dict, "description", <<>>),
                                version |-> field(fm_dict, "version", <<"1.0">>),
                                path |-> fm_dict["path"]],
                       body |-> body]),
        err |-> ""]

\* from_file after the front-matter was loaded: fm_dict["name"] = ... and
\* fm_dict["path"] = ... on a loaded value that is no dict raise a TypeError
parsed(abs_path, base_name, text, loaded) ==
  IF loaded.kind = "value" THEN [ret |-> None, err |-> "TypeError"]
  ELSE validated(
         DictSet(IF "name" \in DOMAIN loaded.dict THEN loaded.dict
                 ELSE DictSet(loaded.dict, "name", base_name),
                 "path", abs_path),
         IF loaded.kind \in {"mapping", "null"}
         THEN lstrip(split(text)[3], {"\n"}) ELSE text)

\* whether from_file looks for a front-matter in the text
has_front_matter(text) ==
  /\ lstrip(text, {"\n", " "}) # <<>>
  /\ Head(lstrip(text, {"\n", " "})) = "---"
  /\ Len(split(text)) >= 3

\* PowerQueryScript.from_file, on the text of the file
from_file_text(abs_path, base_name, text) ==
  parsed(abs_path, base_name, text,
         IF has_front_matter(text) THEN safe_load(split(text)[2])
         ELSE [kind |-> "none", dict |-> EmptyIndex])

\* os.path.splitext(os.path.basename(abs_path))[0]
Stems == <<"f1", "f2", "f3", "f4">>
base_name(abs_path) == <<Stems[abs_path]>>

\* the lists of at most n elements of S
SeqsUpTo(S, n) == UNION {[1..k -> S] : k \in 0..n}

\* ------------------------------------------- one script file, as text
\* The directory holds at most one file, and files maps its path to its
\* text.  A script is written by save, or a text is put there from
\* outside, and from_file parses it.
TextValues == {<<"x">>, <<"x", "---", "x">>}
TextLists == {<<>>, <<<<"x">>>>, <<<<"x">>, <<"x">>>>}
TextScripts ==
  {[meta |-> [name |-> n, category |-> <<"x">>, tags |-> t, dependencies |-> d,
              description |-> ds, version |-> <<"1.0">>, path |-> p],
    body |-> b] :
     n \in TextValues, t \in TextLists, d \in {<<>>, <<<<"x">>>>},
     ds \in {<<>>} \cup TextValues, p \in Paths,
     b \in SeqsUpTo({"x", "\n", "---"}, MaxBodyLen)}

FrontMatters ==
  {<<>>, <<"\n">>, <<"\n", "!", "\n">>, <<"x">>, <<"\n", "x", "\n">>,
   <<"\n", "-", "x", "\n">>, <<"\n", "name:", "x", "\n">>,
   <<"\n", "name:", "x", "\n", "!">>, <<"\n", "category:", "x", "\n">>,
   <<"\n", "tags:", "\n">>, <<"\n", "tags:", "\n", "-", "x", "\n">>}
EditedBodies == {<<>>, <<"x">>, <<"\n", "x">>, <<"\n", "x", "---", "x">>}
EditedTexts ==
  {<<"---">> \o fm \o <<"---">> \o b : fm \in FrontMatters, b \in EditedBodies}
    \cup {<<"\n", "---">> \o fm \o <<"---">> \o b : fm \in FrontMatters, b \in EditedBodies}
    \cup {<<>>, <<"x">>, <<"---", "x">>, <<"x", "---", "x", "---", "x">>}

InitParse ==
  /\ files = EmptyIndex
  /\ idxFile = NoIndexFile
  /\ idxNewer = FALSE
  /\ index = EmptyIndex
  /\ last = NoCall
  /\ readers = NoReaders

\* PowerQueryScript.save on a path without a file: writes to_file_content()
SaveText(script) ==
  /\ DOMAIN files = {}
  /\ files' = (script.meta.path :> to_file_content_text(script))
  /\ last' = [NoCall EXCEPT !.op = "save", !.script = Some(script)]
  /\ UNCHANGED <<idxFile, idxNewer, index>>
  /\ UNCHANGED readers

\* a text is put at a path from outside
EditText(p, text) ==
  /\ DOMAIN files = {}
  /\ files' = (p :> text)
  /\ last' = [NoCall EXCEPT !.op = "edit"]
  /\ UNCHANGED <<idxFile, idxNewer, index>>
  /\ UNCHANGED readers

\* PowerQueryScript.from_file(p)
FromFile(p) ==
  /\ p \in DOMAIN files
  /\ last.op \in {"save", "edit"}
  /\ \E r \in {from_file_text(p, base_name(p), files[p])} :
       last' = [last EXCEPT !.op = "from_file", !.found = r.ret, !.err = r.err]
  /\ UNCHANGED <<files, idxFile, idxNewer, index>>
  /\ UNCHANGED readers

\* the file is removed from outside
RemoveText(p) ==
  /\ p \in DOMAIN files
  /\ files' = EmptyIndex
  /\ last' = NoCall
  /\ UNCHANGED <<idxFile, idxNewer, index>>
  /\ UNCHANGED readers

NextParse ==
  \/ \E script \in TextScripts : SaveText(script)
  \/ \E p \in Paths, text \in EditedTexts : EditText(p, text)
  \/ \E p \in Paths : FromFile(p)
  \/ \E p \in Paths : RemoveText(p)

SpecParse == InitParse /\ [][NextParse]_vars

\* ------------------------------------------------ the resolver's machine

\* what a library holds for one key: nothing, or a script under one of the
\* spellings of the key with at most budget dependencies
Slots(k, budget) ==
  {None} \cup
  {Some([name |-> n, dependencies |-> d]) :
     n \in {x \in Names : lower(x) = k}, d \in SeqsUpTo(Names, budget)}

Used(slot) == IF slot = None THEN 0 ELSE Len(slot[1].dependencies)

\* the library directory: the script of ResolverKeys[p] is the file p
Library(slots) ==
  [p \in {i \in 1..Len(slots) : slots[i] # None} |->
     to_file_content(PowerQueryScript(
       PowerQueryMetadata(slots[p][1].name, "util", slots[p][1].dependencies, p),
       "let"))]

\* a store constructed on any library, and any list of names to resolve,
\* of at most MaxSize dependency entries and names together
InitResolver ==
  \E sa \in Slots(ResolverKeys[1], MaxSize) :
    \E sb \in Slots(ResolverKeys[2], MaxSize - Used(sa)) :
      \E sc \in Slots(ResolverKeys[3], MaxSize - Used(sa) - Used(sb)) :
        \E names \in SeqsUpTo(Names, MaxSize - Used(sa) - Used(sb) - Used(sc)) :
          /\ StartStore(Constructed(Library(<<sa, sb, sc>>)))
          /\ last = [NoCall EXCEPT !.names = names]

\* the order in which a dict filled from these records yields its keys
RECURSIVE key_order(_, _, _)
key_order(data, i, keys) ==
  IF i > Len(data) THEN keys
  ELSE key_order(data, i + 1,
                 IF lower(data[i].name) \in {keys[j] : j \in 1..Len(keys)}
                 THEN keys ELSE Append(keys, lower(data[i].name)))

GetInsertionOrder(names, iteration) ==
  /\ UNCHANGED readers
  /\ \E r \in {get_insertion_order(Store, names, iteration)} :
        /\ SetStore(r.st)
        /\ last' = [NoCall EXCEPT !.op = "get_insertion_order", !.names = names,
                                   !.ret = r.ret, !.err = r.err]

InsertIntoExcel(names, iteration) ==
  /\ UNCHANGED readers
  /\ \E r \in {insert_into_excel(Store, names, iteration)} :
        /\ SetStore(r.st)
        /\ last' = [NoCall EXCEPT !.op = "insert_into_excel", !.names = names,
                                   !.err = r.err, !.handed = r.handed]

\* the tree of any one name, whatever the names drawn at the start
GetDependencyTree(name) ==
  /\ UNCHANGED readers
  /\ \E r \in {get_dependency_tree(Store, name)} :
        /\ SetStore(r.st)
        /\ last' = [NoCall EXCEPT !.op = "get_dependency_tree",
                                   !.names = last.names,
                                   !.name = name, !.tree = r.ret,
                                   !.err = r.err]

\* The names drawn at the start are resolved, or inserted, again and again.
\* The cache of this machine was filled from index.json by the constructor,
\* so it yields its entries in the order of the records.
NextResolver ==
  \/ GetInsertionOrder(last.names, key_order(idxFile.data, 1, <<>>))
  \/ InsertIntoExcel(last.names, key_order(idxFile.data, 1, <<>>))
  \/ \E name \in Names : GetDependencyTree(name)

SpecResolver == InitResolver /\ [][NextResolver]_vars

\* ------------------------------------- machine of the legacy handler
\* An XLPowerQueryHandler on the library of a constructed store, whose
\* index.json it reads.  The workbook takes every query, or raises in
\* Queries.Add for the query named by the last key.
Refusals == {{}, {ResolverKeys[Len(ResolverKeys)]}}

InsertPqsBatch(names, refused) ==
  /\ UNCHANGED <<files, idxFile, idxNewer, index, readers>>
  /\ \E r \in {insert_pqs_batch(Store, refused, names)} :
        last' = [NoCall EXCEPT !.op = "insert_pqs_batch", !.names = names,
                               !.hits = r.inserted, !.ret = r.success,
                               !.failed = r.failed, !.err = r.err,
                               !.found = Some(refused)]

InsertPqIntoActiveExcel(name, refused) ==
  /\ UNCHANGED <<files, idxFile, idxNewer, index, readers>>
  /\ \E r \in {insert_pq_into_active_excel(Store, refused, name)} :
        last' = [NoCall EXCEPT !.op = "insert_pq_into_active_excel",
                               !.names = last.names, !.name = name,
                               !.hits = r.inserted, !.err = r.err,
                               !.found = Some(refused)]

NextLegacy ==
  \/ \E refused \in Refusals : InsertPqsBatch(last.names, refused)
  \/ \E name \in Names, refused \in Refusals :
       InsertPqIntoActiveExcel(name, refused)

SpecLegacy == InitResolver /\ [][NextLegacy]_vars

\* ----------------------------------------------------------- the tokenizer
\* A text is here a sequence of characters, each a string of length one.
ascii_uppercase ==
  <<"A", "B", "C", "D", "E", "F", "G", "H", "I", "J", "K", "L", "M", "N",
    "O", "P", "Q", "R", "S", "T", "U", "V", "W", "X", "Y", "Z">>
ascii_lowercase ==
  <<"a", "b", "c", "d", "e", "f", "g", "h", "i", "j", "k", "l", "m", "n",
    "o", "p", "q", "r", "s", "t", "u", "v", "w", "x", "y", "z">>
Letters == {ascii_uppercase[k] : k \in 1..26} \cup {ascii_lowercase[k] : k \in 1..26}
Digits == {"0", "1", "2", "3", "4", "5", "6", "7", "8", "9"}

\* [a-zA-Z0-9_]
WordChars == Letters \cup Digits \cup {"_"}

\* [=<>\[\]{}()&+-/*,;], where +-/ is the range from "+" to "/"
OperatorChars ==
  {"=", "<", ">", "[", "]", "{", "}", "(", ")", "&",
   "+", ",", "-", ".", "/", "*", ";"}

M_KEYWORDS ==
  <<<<"l", "e", "t">>, <<"i", "n">>, <<"i", "f">>, <<"t", "h", "e", "n">>,
    <<"e", "l", "s", "e">>, <<"e", "a", "c", "h">>, <<"t", "r", "y">>,
    <<"o", "t", "h", "e", "r", "w", "i", "s", "e">>,
    <<"t", "y", "p", "e">>, <<"m", "e", "t", "a">>, <<"a", "s">>,
    <<"i", "s">>, <<"s", "e", "c", "t", "i", "o", "n">>,
    <<"s", "h", "a", "r", "e", "d">>, <<"t", "r", "u", "e">>,
    <<"f", "a", "l", "s", "e">>, <<"n", "u", "l", "l">>>>

M_DATA_SOURCES ==
  <<<<"S", "q", "l", ".", "D", "a", "t", "a", "b", "a", "s", "e">>,
    <<"W", "e", "b", ".", "C", "o", "n", "t", "e", "n", "t", "s">>,
    <<"F", "i", "l", "e", ".", "C", "o", "n", "t", "e", "n", "t", "s">>,
    <<"E", "x", "c", "e", "l", ".", "W", "o", "r", "k", "b", "o", "o", "k">>,
    <<"E", "x", "c", "e", "l", ".", "C", "u", "r", "r", "e", "n", "t", "W", "o", "r", "k", "b", "o", "o", "k">>,
    <<"C", "s", "v", ".", "D", "o", "c", "u", "m", "e", "n", "t">>,
    <<"J", "s", "o", "n", ".", "D", "o", "c", "u", "m", "e", "n", "t">>,
    <<"O", "d", "b", "c", ".", "D", "a", "t", "a", "S", "o", "u", "r", "c", "e">>,
    <<"F", "o", "l", "d", "e", "r", ".", "F", "i", "l", "e", "s">>,
    <<"S", "h", "a", "r", "e", "P", "o", "i", "n", "t", ".", "F", "i", "l", "e", "s">>,
    <<"P", "o", "w", "e", "r", "B", "I", ".", "D", "a", "t", "a", "f", "l", "o", "w", "s">>>>

\* str.lower() of one character
lower_char(c) ==
  IF \E k \in 1..26 : ascii_uppercase[k] = c
  THEN ascii_lowercase[CHOOSE k \in 1..26 : ascii_uppercase[k] = c]
  ELSE c

\* whether the character at position i exists and is a word character
word_at(text, i) == i >= 1 /\ i <= Len(text) /\ text[i] \in WordChars

\* \b before position i
boundary(text, i) == word_at(text, i - 1) # word_at(text, i)

\* whether the text goes on at position i with word, ignoring case
starts_with(text, i, word) ==
  /\ i + Len(word) - 1 <= Len(text)
  /\ \A k \in 1..Len(word) : lower_char(text[i + k - 1]) = lower_char(word[k])

\* where the longest run of characters of chars from position i on ends
RECURSIVE run_end(_, _, _)
run_end(text, i, chars) ==
  IF i <= Len(text) /\ text[i] \in chars THEN run_end(text, i + 1, chars)
  ELSE i

\* position of the first a followed by b at or after from (0: none)
RECURSIVE find_pair(_, _, _, _)
find_pair(text, a, b, from) ==
  IF from + 1 > Len(text) THEN 0
  ELSE IF text[from] = a /\ text[from + 1] = b THEN from
  ELSE find_pair(text, a, b, from + 1)

\* Each pattern of TOKEN_SPEC, tried at position i of the text: the
\* position after its match, or 0 when it does not match there.

\* //[^\n]*|/\*.*?\*/
COMMENT(text, i) ==
  IF starts_with(text, i, <<"/", "/">>)
  THEN IF find(text, "\n", i + 2) = 0 THEN Len(text) + 1 ELSE find(text, "\n", i + 2)
  ELSE IF starts_with(text, i, <<"/", "*">>) /\ find_pair(text, "*", "/", i + 2) # 0
  THEN find_pair(text, "*", "/", i + 2) + 2
  ELSE 0

\* the pattern STRING, #"[^"]*"|"[^"]*"
STRING_LITERAL(text, i) ==
  IF starts_with(text, i, <<"#", "\"">>) /\ find(text, "\"", i + 2) # 0
  THEN find(text, "\"", i + 2) + 1
  ELSE IF text[i] = "\"" /\ find(text, "\"", i + 1) # 0
  THEN find(text, "\"", i + 1) + 1
  ELSE 0

\* \b(w1|w2|...)\b: the first word of words from the k-th on that matches
RECURSIVE first_word(_, _, _, _)
first_word(text, i, words, k) ==
  IF k > Len(words) \/ ~boundary(text, i) THEN 0
  ELSE IF starts_with(text, i, words[k]) /\ boundary(text, i + Len(words[k]))
  THEN i + Len(words[k])
  ELSE first_word(text, i, words, k + 1)

KEYWORD(text, i) == first_word(text, i, M_KEYWORDS, 1)

DATASOURCE(text, i) == first_word(text, i, M_DATA_SOURCES, 1)

\* the position e moved back over the "." before it
RECURSIVE back_dots(_, _)
back_dots(text, e) == IF text[e - 1] = "." THEN back_dots(text, e - 1) ELSE e

\* \b[A-Z][a-zA-Z0-9_]*\.[A-Z][a-zA-Z0-9_.]*\b, where [A-Z] is any letter
\* under IGNORECASE; the last \b makes the match give back trailing dots
function_tail(text, dot) ==
  IF dot + 1 <= Len(text) /\ text[dot] = "." /\ text[dot + 1] \in Letters
  THEN back_dots(text, run_end(text, dot + 2, WordChars \cup {"."}))
  ELSE 0

FUNCTION(text, i) ==
  IF boundary(text, i) /\ text[i] \in Letters
  THEN function_tail(text, run_end(text, i + 1, WordChars))
  ELSE 0

\* \d+(\.\d*)?\b after the digits that end before position d: the
\* fraction as long as it goes if a \b follows it, else "." alone before a
\* digit, else the digits alone
number_tail(text, d, e) ==
  IF d <= Len(text) /\ text[d] = "." /\ boundary(text, e) THEN e
  ELSE IF d <= Len(text) /\ text[d] = "." /\ e > d + 1 THEN d + 1
  ELSE IF boundary(text, d) THEN d
  ELSE 0

\* \b\d+(\.\d*)?\b
NUMBER(text, i) ==
  IF boundary(text, i) /\ text[i] \in Digits
  THEN number_tail(text, run_end(text, i, Digits),
                   run_end(text, run_end(text, i, Digits) + 1, Digits))
  ELSE 0

\* [=<>\[\]{}()&+-/*,;]
OPERATOR(text, i) == IF text[i] \in OperatorChars THEN i + 1 ELSE 0

\* \b[a-zA-Z_][a-zA-Z0-9_]*\b
IDENTIFIER(text, i) ==
  IF boundary(text, i) /\ text[i] \in Letters \cup {"_"}
  THEN run_end(text, i + 1, WordChars)
  ELSE 0

\* the pattern OTHER, . without re.DOTALL: any character but "\n"
OTHER_CHAR_but_newline(text, i) == IF text[i] = "\n" THEN 0 ELSE i + 1

\* the pattern OTHER, . with re.DOTALL: any character
OTHER_CHAR(text, i) == i + 1

\* the kinds of TOKEN_SPEC, with FUNCTION before DATASOURCE
Kinds_function_first ==
  <<"COMMENT", "STRING", "KEYWORD", "FUNCTION", "DATASOURCE", "NUMBER",
    "OPERATOR", "IDENTIFIER", "OTHER">>

\* the kinds of TOKEN_SPEC, in its order
Kinds ==
  <<"COMMENT", "STRING", "KEYWORD", "DATASOURCE", "FUNCTION", "NUMBER",
    "OPERATOR", "IDENTIFIER", "OTHER">>

\* the pattern of a kind, tried at position i
pattern(kind, text, i) ==
  CASE kind = "COMMENT" -> COMMENT(text, i)
    [] kind = "STRING" -> STRING_LITERAL(text, i)
    [] kind = "KEYWORD" -> KEYWORD(text, i)
    [] kind = "DATASOURCE" -> DATASOURCE(text, i)
    [] kind = "FUNCTION" -> FUNCTION(text, i)
    [] kind = "NUMBER" -> NUMBER(text, i)
    [] kind = "OPERATOR" -> OPERATOR(text, i)
    [] kind = "IDENTIFIER" -> IDENTIFIER(text, i)
    [] kind = "OTHER" -> OTHER_CHAR(text, i)

\* TOKEN_REGEX at position i: the first alternative from the k-th on that
\* matches there (end = 0: none does)
RECURSIVE match(_, _, _)
match(text, i, k) ==
  IF k > Len(Kinds) THEN [kind |-> "", end |-> 0]
  ELSE IF pattern(Kinds[k], text, i) # 0
  THEN [kind |-> Kinds[k], end |-> pattern(Kinds[k], text, i)]
  ELSE match(text, i, k + 1)

\* TOKEN_REGEX.finditer(body) from position i on: a position where nothing
\* matches is passed over
RECURSIVE finditer(_, _, _)
finditer(body, i, tokens) ==
  IF i > Len(body) THEN tokens
  ELSE IF match(body, i, 1).end = 0 THEN finditer(body, i + 1, tokens)
  ELSE finditer(body, match(body, i, 1).end,
                Append(tokens, [value |-> SubSeq(body, i, match(body, i, 1).end - 1),
                                kind |-> match(body, i, 1).kind,
                                start |-> i]))

\* ExcelMCodeParser.get_tokens
get_tokens(body) == finditer(body, 1, <<>>)

\* ------------------------------------------------ the tokenizer's machine
\* the texts that get_tokens is given: at most MaxPieces of these, one
\* after the other
Pieces ==
  {<<"S", "q", "l", ".", "D", "a", "t", "a", "b", "a", "s", "e">>,
   <<"w", "e", "b", ".", "c", "o", "n", "t", "e", "n", "t", "s">>,
   <<"T", "a", "b", "l", "e", ".", "A", "d", "d", "C", "o", "l", "u", "m", "n">>,
   <<"l", "e", "t">>,
   <<"x">>,
   <<"1">>,
   <<".">>,
   <<" ">>,
   <<"\n">>,
   <<"\"">>,
   <<"/", "/">>,
   <<"/", "*">>,
   <<"*", "/">>,
   <<"#">>}

RECURSIVE join(_)
join(pieces) == IF pieces = <<>> THEN <<>> ELSE Head(pieces) \o join(Tail(pieces))

Texts == {join(ps) : ps \in SeqsUpTo(Pieces, MaxPieces)}

\* the body that get_tokens is about to be given
InitTokens ==
  /\ files = EmptyIndex
  /\ idxFile = NoIndexFile
  /\ idxNewer = FALSE
  /\ index = EmptyIndex
  /\ \E body \in Texts : last = [NoCall EXCEPT !.text = body]
  /\ readers = NoReaders

\* parser.get_tokens(body)
GetTokens(body) ==
  /\ last.op = "init"
  /\ \E r \in {get_tokens(body)} :
       last' = [last EXCEPT !.op = "get_tokens", !.tokens = r]
  /\ UNCHANGED <<files, idxFile, idxNewer, index>>
  /\ UNCHANGED readers

NextTokens == GetTokens(last.text)

SpecTokens == InitTokens /\ [][NextTokens]_vars

\* ------------------------------------------------------------ properties
Range(list) == {list[i] : i \in 1..Len(list)}

\* the dependencies declared by the script that the store finds for name
DeclaredDeps(idx, name) ==
  IF lower(name) \in DOMAIN idx THEN Range(idx[lower(name)].dependencies)
  ELSE {}

\* the names reached from the names of S through declared dependencies
RECURSIVE ReachedNames(_, _)
ReachedNames(idx, S) ==
  LET T == S \cup UNION {DeclaredDeps(idx, n) : n \in S}
  IN IF T = S THEN S ELSE ReachedNames(idx, T)

HasScript(idx, name) == lower(name) \in DOMAIN idx

\* the scripts (keys of the index) a script depends on directly
ScriptDeps(idx, k) ==
  {lower(d) : d \in Range(idx[k].dependencies)} \cap DOMAIN idx

RECURSIVE ReachedScripts(_, _)
ReachedScripts(idx, S) ==
  LET T == S \cup UNION {ScriptDeps(idx, k) : k \in S}
  IN IF T = S THEN S ELSE ReachedScripts(idx, T)

\* a dependency cycle among existing scripts is reachable from names
CycleReachable(idx, names) ==
  \E k \in ReachedScripts(idx, {lower(n) : n \in Range(names)} \cap DOMAIN idx) :
     k \in ReachedScripts(idx, ScriptDeps(idx, k))

Resolved == last.op = "get_insertion_order" /\ last.err = ""

\* C1: in a list returned by get_insertion_order, every name comes after
\* each entry of its script's dependencies list that is in the list too
C1_DependenciesPrecede ==
  Resolved =>
    \A i, j \in 1..Len(last.ret) :
       last.ret[j] \in DeclaredDeps(index, last.ret[i]) => j < i

C1_Witness ==
  /\ Resolved
  /\ \E i, j \in 1..Len(last.ret) :
       i # j /\ last.ret[j] \in DeclaredDeps(index, last.ret[i])

\* C2: get_insertion_order raises CircularDependencyError exactly when a
\* cycle among existing scripts (a self-dependency included) is reachable
\* from the requested names, and then returns no list
C2_RaisesIffCycle ==
  last.op = "get_insertion_order" =>
    /\ (last.err = "CircularDependencyError") <=> CycleReachable(index, last.names)
    /\ last.err \in {"", "CircularDependencyError"}
    /\ last.err # "" => last.ret = <<>>

C2_Witness ==
  /\ last.op = "get_insertion_order"
  /\ last.err = "CircularDependencyError"
  /\ Cardinality(ReachedScripts(index, {lower(n) : n \in Range(last.names)} \cap DOMAIN index)) >= 2

\* C3: without a reachable cycle get_insertion_order does not raise, and
\* returns exactly the requested and the reached names that have a script
C3_ExactlyTheReachedScripts ==
  (last.op = "get_insertion_order" /\ ~CycleReachable(index, last.names)) =>
    /\ last.err = ""
    /\ Range(last.ret) =
         {n \in ReachedNames(index, Range(last.names)) : HasScript(index, n)}

C3_Witness ==
  /\ Resolved
  /\ \E n \in Range(last.ret) :
       \E d \in DeclaredDeps(index, n) : ~HasScript(index, d)

\* C4: a second get_insertion_order with the same names on the unchanged
\* store returns what the first returned, whatever the order in which the
\* index map is iterated, and leaves the store unchanged
C4_SecondCallAgrees ==
  last.op = "get_insertion_order" =>
    \A iteration \in IterationOrders(DOMAIN index) :
       get_insertion_order(Store, last.names, iteration) =
         [st |-> Store, ret |-> last.ret, err |-> last.err]

C4_Witness ==
  /\ Resolved
  /\ Len(last.ret) >= 2
  /\ Cardinality(DOMAIN index) >= 2

\* C5 (as claimed): insert_into_excel fails with a not-found error and hands
\* nothing to Excel when a requested name or a transitive dependency has no
\* script
C5_MissingNameIsFatal ==
  (/\ last.op = "insert_into_excel"
   /\ \E n \in ReachedNames(index, Range(last.names)) : ~HasScript(index, n)
   /\ last.err # "CircularDependencyError")
    => (last.err = "FileNotFoundError" /\ last.handed = None)

\* ------------------------------------------------- properties of the store
\* the cache holds exactly one entry for each record of the index file
CacheAgrees(idx, f) ==
  /\ f.exists /\ f.ok
  /\ Cardinality(DOMAIN idx) = Len(f.data)
  /\ \A i \in 1..Len(f.data) :
       /\ lower(f.data[i].name) \in DOMAIN idx
       /\ idx[lower(f.data[i].name)] = f.data[i]

\* C6 (as claimed): right after build_index the cache holds exactly one
\* entry for each record written to the index file, and nothing else
C6_CacheAgreesAfterBuild ==
  last.op = "build_index" => CacheAgrees(index, idxFile)

\* C7 (as claimed): no two script files, and no two records of the index
\* file, carry names that are equal ignoring case.  (The changes from
\* outside only remove or damage files, or write the records of the files.)
C7_NamesUnique ==
  /\ \A p, q \in DOMAIN files :
       (p # q /\ files[p].parseable /\ files[q].parseable)
         => lower(files[p].name) # lower(files[q].name)
  /\ \A i, j \in 1..Len(idxFile.data) :
       i # j => lower(idxFile.data[i].name) # lower(idxFile.data[j].name)

\* C8: save_script without overwrite on a path that exists raises
\* FileExistsError and leaves the files, the cache and the index file as
\* they were
C8_ConflictChangesNothing ==
  [][(/\ last'.op = "save_script"
      /\ ~last'.overwrite
      /\ last'.script[1].meta.path \in DOMAIN files)
       => (/\ last'.err = "FileExistsError"
           /\ UNCHANGED <<files, idxFile, idxNewer, index>>)]_vars

C8_Witness ==
  /\ last.op = "save_script"
  /\ last.err = "FileExistsError"
  /\ files[last.script[1].meta.path] # to_file_content(last.script[1])
  /\ lower(last.script[1].meta.name) \in DOMAIN index
  /\ index[lower(last.script[1].meta.name)] # last.script[1].meta

SavedOk(l) == l.op = "save_script" /\ l.err = ""

Found(st, meta) == get_metadata_by_name(st, meta.name).ret = Some(meta)

\* C9 (as claimed): right after a successful save_script the lookup of the
\* saved name returns the saved metadata, and the save has left the index
\* file unchanged
C9_SavedIsFound ==
  [][SavedOk(last')
       => (idxFile' = idxFile /\ Found(Store', last'.script[1].meta))]_vars

\* C9 (amended): the save leaves the index file unchanged, and when the
\* index file existed and was not newer than the last load as the script
\* was saved, the lookup of the saved name returns the saved metadata
C9_SavedIsFoundWhenFresh ==
  [][SavedOk(last')
       => (/\ idxFile' = idxFile
           /\ (idxFile.exists /\ ~idxNewer)
                => Found(Store', last'.script[1].meta))]_vars

C9_Witness ==
  /\ SavedOk(last)
  /\ idxFile.exists /\ ~idxNewer
  /\ \A i \in 1..Len(idxFile.data) : idxFile.data[i] # last.script[1].meta
  /\ Found(Store, last.script[1].meta)

\* C10 (as claimed): when delete_script returns true, the file it looked up
\* is gone, the index file holds the records of the remaining files and the
\* lookup of the name returns nothing; when the lookup finds nothing,
\* delete_script returns false and changes neither files nor cache
C10_DeletedIsGone ==
  [][last'.op = "delete_script"
       => LET m == get_metadata_by_name(Store, last'.name).ret
          IN /\ last'.flag
                  => /\ m # None
                     /\ m[1].path \notin DOMAIN files'
                     /\ idxFile' = IndexFile(sort_records(<<>>, walk(files', 1), 1))
                     /\ get_metadata_by_name(Store', last'.name).ret = None
             /\ m = None
                  => (~last'.flag /\ files' = files /\ index' = index)]_vars

\* the entries of a cache that a spelling of name asks for
EntriesFor(idx, name) ==
  {k \in DOMAIN idx : lower(idx[k].name) = lower(name)}

LookupIgnoresCase(r, name) ==
  /\ \A n2 \in Names :
       lower(n2) = lower(name) => get_metadata_by_name(Store, n2) = r
  /\ (r.ret = None) <=> (EntriesFor(r.st.index, name) = {})
  /\ r.ret # None => \E k \in EntriesFor(r.st.index, name) : r.ret[1] = r.st.index[k]

Parseable(fs) == {p \in DOMAIN fs : fs[p].parseable}

\* C12: build_index completes whatever the files hold, and the index it
\* writes has one record for each file that parses and none for the others
C12_IndexesWhatParses ==
  last.op = "build_index" =>
    /\ idxFile.exists /\ idxFile.ok
    /\ Len(idxFile.data) = Cardinality(Parseable(files))
    /\ Range(idxFile.data) = {from_file(p, files[p]).meta : p \in Parseable(files)}

C12_Witness ==
  /\ last.op = "build_index"
  /\ \E p \in DOMAIN files, q \in Parseable(files) :
       p \notin Parseable(files) /\ p < q

Sorted(recs) ==
  \A i, j \in 1..Len(recs) : i < j => KeyLeq(recs[i], recs[j])

C16_SearchUsesCacheOnly ==
  [][(last'.op \in {"search_pq", "list_categories"})
       => /\ files' = files /\ idxFile' = idxFile
          /\ last'.op = "search_pq"
               => last'.hits = {index[k] : k \in {x \in DOMAIN index :
                                    matches(lower(last'.name), index[x])}}
          /\ last'.op = "list_categories"
               => last'.ret = sorted({index[k].category : k \in DOMAIN index})]_vars

\* the entries of a cache that match a keyword
Hits(idx, keyword) ==
  {idx[k] : k \in {x \in DOMAIN idx : matches(lower(keyword), idx[x])}}

\* C16 (amended): search_pq and list_categories never change a script file;
\* on a cache that is not stale they change nothing at all, and they answer
\* from the cache as load_index() has left it: search_pq returns exactly its
\* entries that match the keyword, list_categories its categories in order
C16_SearchUsesRefreshedCache ==
  [][(last'.op \in {"search_pq", "list_categories"})
       => /\ files' = files
          /\ ~is_index_stale(Store)
               => UNCHANGED <<idxFile, idxNewer, index>>
          /\ Store' = load_index(Store, FALSE)
          /\ last'.op = "search_pq" => last'.hits = Hits(index', last'.name)
          /\ last'.op = "list_categories"
               => last'.ret = sorted({index'[k].category : k \in DOMAIN index'})]_vars

C16_Witness ==
  /\ last.op = "search_pq"
  /\ ~is_index_stale(Store)
  /\ \E m \in last.hits : m.name # last.name

\* the nodes of a tree, and the longest path from its root
RECURSIVE TreeNodes(_), TreeHeight(_)
TreeNodes(tree) ==
  {tree.name} \cup UNION {TreeNodes(tree.children[i]) : i \in 1..Len(tree.children)}

TreeHeight(tree) ==
  IF tree.children = <<>> THEN 1
  ELSE 1 + CHOOSE h \in 1..MaxDepth :
             /\ \E i \in 1..Len(tree.children) : TreeHeight(tree.children[i]) = h
             /\ \A i \in 1..Len(tree.children) : TreeHeight(tree.children[i]) <= h

\* C17: get_dependency_tree returns a tree rooted at the name asked for and
\* raises nothing, whatever the library holds; build_tree nests no deeper
\* than one call for each name of the tree and one more
C17_TreeIsReturned ==
  last.op = "get_dependency_tree" =>
    /\ last.err = ""
    /\ last.tree # None
    /\ last.tree[1].name = last.name
    /\ TreeHeight(last.tree[1]) <= Cardinality(TreeNodes(last.tree[1])) + 1

C17_Witness ==
  /\ last.op = "get_dependency_tree"
  /\ CycleReachable(index, <<last.name>>)
  /\ last.tree # None
  /\ TreeHeight(last.tree[1]) >= 3

\* the text of the one file of the directory
TheText == files[CHOOSE p \in DOMAIN files : TRUE]
ThePath == CHOOSE p \in DOMAIN files : TRUE

\* C14: parsing with from_file what to_file_content wrote yields the same
\* Script: name, category, tags, dependencies, description, version and
\* body are preserved, also when the body begins with newlines or a value
\* or the body contains "---".
C14_RoundTrip ==
  (last.op = "from_file" /\ last.script # None)
    => (last.err = "" /\ last.found = last.script)

\* the front-matter block of the text cannot be turned into metadata fields
BadFrontMatter(text) ==
  /\ has_front_matter(text)
  /\ safe_load(split(text)[2]).kind \in {"error", "value"}

\* C15: from_file never fails because of the front-matter: on a block
\* that is a YAML error or no mapping it returns a Script with the default
\* metadata, the base name of the file as name, and the whole text as body.
C15_FrontMatterNeverFails ==
  (last.op = "from_file" /\ BadFrontMatter(TheText))
    => /\ last.err = ""
       /\ last.found =
            Some([meta |-> [name |-> base_name(ThePath),
                            category |-> <<"Uncategorized">>,
                            tags |-> <<>>, dependencies |-> <<>>,
                            description |-> <<>>, version |-> <<"1.0">>,
                            path |-> ThePath],
                  body |-> TheText])

\* the values of the tokens from the k-th on, one after the other
RECURSIVE values_from(_, _)
values_from(tokens, k) ==
  IF k > Len(tokens) THEN <<>>
  ELSE tokens[k].value \o values_from(tokens, k + 1)

\* C19: get_tokens is total and lossless: on every body it returns, and
\* the values of its tokens, one after the other, are the body, no
\* character dropped, duplicated or rewritten.
C19_TokensRebuildTheBody ==
  last.op = "get_tokens" => values_from(last.tokens, 1) = last.text

\* an unterminated string and a newline, each emitted as OTHER
C19_Witness ==
  /\ last.op = "get_tokens"
  /\ \E k \in 1..Len(last.tokens) :
       last.tokens[k].kind = "OTHER" /\ last.tokens[k].value = <<"\"">>
  /\ \E k \in 1..Len(last.tokens) :
       last.tokens[k].kind = "OTHER" /\ last.tokens[k].value = <<"\n">>

\* the text goes on at position i with this name, which ends at a \b
NameAt(text, i, name) ==
  starts_with(text, i, name) /\ boundary(text, i + Len(name))

TableAddColumn ==
  <<"T", "a", "b", "l", "e", ".", "A", "d", "d", "C", "o", "l", "u", "m", "n">>

StartedFresh == readers.th # <<>> /\ ~is_index_stale(readers.store0)

\* what the call of thread t returns when it runs alone on the store
\* that the threads started on
Alone(t) ==
  IF readers.th[t].op = "search_pq"
  THEN search_pq(readers.store0, readers.th[t].arg).ret
  ELSE get_metadata_by_name(readers.store0, readers.th[t].arg).ret

\* C18: on a cache that is loaded and not stale, however the calls of
\* search_pq and get_metadata_by_name of several threads interleave, the
\* cache and the load timestamp stay as they were, and each call returns
\* what it returns when run alone.
C18_ReadersLeaveFreshCache ==
  StartedFresh =>
    /\ index = readers.store0.index
    /\ idxFile = readers.store0.idxFile
    /\ ~readers.stamped
    /\ \A t \in Threads : readers.th[t].pc = "done" => readers.th[t].ret = Alone(t)

\* two calls that ran at the same time and both found something
C18_Witness ==
  /\ StartedFresh
  /\ \E t1, t2 \in Threads :
       /\ t1 # t2
       /\ readers.th[t1].pc = "done" /\ readers.th[t2].pc = "done"
       /\ readers.th[t1].op = "search_pq" /\ readers.th[t1].ret # {}
       /\ readers.th[t2].op = "get_metadata_by_name" /\ readers.th[t2].ret # None

\* the node is expanded as its Script says, and so are the nodes below
\* it, unless its name stands among its ancestors
RECURSIVE ExpandedOffPath(_, _, _)
ExpandedOffPath(idx, node, ancestors) ==
  \/ node.name \in ancestors
  \/ lower(node.name) \notin DOMAIN idx
  \/ /\ Len(node.children) = Len(idx[lower(node.name)].dependencies)
     /\ \A i \in 1..Len(node.children) :
          /\ node.children[i].name = idx[lower(node.name)].dependencies[i]
          /\ ExpandedOffPath(idx, node.children[i], ancestors \cup {node.name})

\* C23: in the tree of get_dependency_tree a node is cut only when its
\* name occurs on the path from the root to it: every other node that has
\* a Script has one child per entry of its dependencies, in list order,
\* also when the Script is reached along several branches.
C23_CutOnlyOnPath ==
  (last.op = "get_dependency_tree" /\ last.tree # None)
    => ExpandedOffPath(index, last.tree[1], {})

\* C27: the list of get_insertion_order holds each Script at most once,
\* names compared as the store looks them up (ignoring case), also when a
\* Script is requested or depended on under spellings that differ in case.
C27_EachScriptOnce ==
  (last.op = "get_insertion_order" /\ last.err = "")
    => \A i, j \in 1..Len(last.ret) :
         lower(last.ret[i]) = lower(last.ret[j]) => i = j

\* the characters that C29 lists
ListedOperators ==
  {"=", "<", ">", "[", "]", "{", "}", "(", ")", "&", "+", "-", "/", "*",
   ",", ";"}

\* C29: a token has kind OPERATOR exactly when it is one character of
\* = < > [ ] { } ( ) & + - / * , ; standing for itself; any other single
\* character that no earlier rule matches, a lone full stop for one, has
\* kind OTHER.
C29_OperatorsAsListed ==
  last.op = "get_tokens" =>
    \A k \in 1..Len(last.tokens) :
      /\ last.tokens[k].kind = "OPERATOR"
           <=> /\ Len(last.tokens[k].value) = 1
               /\ last.tokens[k].value[1] \in ListedOperators
      /\ last.tokens[k].value = <<".">> => last.tokens[k].kind = "OTHER"

\* the call found nothing
Absent(op, ret) == IF op = "search_pq" THEN ret = {} ELSE ret = None

\* the cache idx holds what the call (op, arg) asks for
Indexed(op, arg, idx) ==
  IF op = "search_pq"
  THEN \E k \in DOMAIN idx : matches(lower(arg), idx[k])
  ELSE lower(arg) \in DOMAIN idx

\* what the call asks for is in the cache the threads started on, and in
\* the cache that one undisturbed reload makes of it
FoundBeforeAndAfter(op, arg) ==
  /\ Indexed(op, arg, readers.store0.index)
  /\ Indexed(op, arg, load_index(readers.store0, TRUE).index)

\* thread u has emptied the cache, or is about to, and has not refilled it
Reloading(u) ==
  readers.th[u].pc \in {"clear", "load_exists", "build", "open", "fill"}

\* C24: a reload is not atomic to the readers.  A call of
\* get_metadata_by_name or search_pq can return absent for a name that is
\* indexed before and after the reload (the state C24_Witness); it does so
\* only while another thread stands inside load_index, between emptying
\* the cache and having refilled it.
C24_AbsentOnlyInsideReload ==
  [][\A t \in DOMAIN readers.th :
       (/\ readers.th[t].pc = "read" /\ readers'.th[t].pc = "done"
        /\ FoundBeforeAndAfter(readers.th[t].op, readers.th[t].arg)
        /\ Absent(readers.th[t].op, readers'.th[t].ret))
         => \E u \in DOMAIN readers.th \ {t} : Reloading(u)]_vars

\* a lookup of b has returned absent on a cache that another thread's
\* load_index has refilled with a only
C24_Witness ==
  /\ readers.th # <<>>
  /\ DOMAIN index = {"a"}
  /\ \E t \in DOMAIN readers.th :
       /\ readers.th[t].pc = "done"
       /\ readers.th[t].op = "get_metadata_by_name"
       /\ FoundBeforeAndAfter(readers.th[t].op, readers.th[t].arg)
       /\ readers.th[t].ret = None
       /\ \E u \in DOMAIN readers.th \ {t} :
            readers.th[u].pc = "fill" /\ readers.th[u].i = 2

\* C26: after update_query_metadata(old_name, new_meta) has returned
\* without an error, get_script_by_name(new_meta.name) returns the Script
\* with new_meta as metadata, path included, and with the body that the
\* Script under old_name had, whatever the new name, category and path.
C26_UpdatedIsFound ==
  [][(last'.op = "update_query_metadata" /\ last'.err = "")
       => get_script_by_name(Store', last'.script[1].meta.name).ret
            = Some(PowerQueryScript(last'.script[1].meta,
                     get_script_by_name(Store, last'.name).ret[1].body))]_vars

\* ------------------------------------------------- find_data_sources
\* str.isspace() of a token's value
isspace(value) == value # <<>> /\ \A n \in 1..Len(value) : value[n] \in {" ", "\n"}

\* str.strip()
RECURSIVE strip(_)
strip(text) ==
  IF text = <<>> THEN text
  ELSE IF isspace(<<text[1]>>) THEN strip(Tail(text))
  ELSE IF isspace(<<text[Len(text)]>>) THEN strip(SubSeq(text, 1, Len(text) - 1))
  ELSE text

\* while j < len(tokens) and tokens[j][1] == 'OTHER' and
\* tokens[j][0].isspace(): j += 1
RECURSIVE skip_whitespace(_, _)
skip_whitespace(tokens, j) ==
  IF j <= Len(tokens) /\ tokens[j].kind = "OTHER" /\ isspace(tokens[j].value)
  THEN skip_whitespace(tokens, j + 1)
  ELSE j

\* the paren_level behind the token
level_after(paren_level, arg_val) ==
  IF arg_val = <<"(">> THEN paren_level + 1
  ELSE IF arg_val = <<")">> THEN paren_level - 1
  ELSE paren_level

\* the argument loop that takes the first ")" or "," for the end
RECURSIVE arg_end_index_flat(_, _, _)
arg_end_index_flat(tokens, k, paren_level) ==
  IF k > Len(tokens) THEN 0
  ELSE IF tokens[k].value \in {<<")">>, <<",">>} THEN k
  ELSE arg_end_index_flat(tokens, k + 1, paren_level)

\* the argument loop from token k on: the index of the token that ends
\* the first argument, 0 (Python's -1) when none does
RECURSIVE arg_end_index(_, _, _)
arg_end_index(tokens, k, paren_level) ==
  IF k > Len(tokens) THEN 0
  ELSE IF level_after(paren_level, tokens[k].value) = 0
          /\ tokens[k].value = <<")">> THEN k
  ELSE IF level_after(paren_level, tokens[k].value) = 1
          /\ tokens[k].value = <<",">> THEN k
  ELSE arg_end_index(tokens, k + 1, level_after(paren_level, tokens[k].value))

\* "".join(val for val, kind in tokens[from:to])
RECURSIVE joined(_, _, _)
joined(tokens, from, to) ==
  IF from > to THEN <<>>
  ELSE tokens[from].value \o joined(tokens, from + 1, to)

\* the while loop of find_data_sources from token i on.  Of a record the
\* model keeps type and full_argument: source_type and source_value are
\* computed from full_argument by _find_ultimate_source, which returns on
\* every string.
RECURSIVE scan_sources(_, _, _)
scan_sources(tokens, i, sources) ==
  IF i > Len(tokens) THEN sources
  ELSE IF tokens[i].kind # "DATASOURCE" THEN scan_sources(tokens, i + 1, sources)
  ELSE IF skip_whitespace(tokens, i + 1) > Len(tokens)
          \/ tokens[skip_whitespace(tokens, i + 1)].value # <<"(">>
       THEN scan_sources(tokens, i + 1, sources)
  ELSE IF arg_end_index(tokens, skip_whitespace(tokens, i + 1) + 1, 1) = 0
       THEN scan_sources(tokens, i + 1, sources)
  ELSE scan_sources(tokens,
         arg_end_index(tokens, skip_whitespace(tokens, i + 1) + 1, 1),
         Append(sources,
           [type |-> tokens[i].value,
            full_argument |->
              strip(joined(tokens, skip_whitespace(tokens, i + 1) + 1,
                     arg_end_index(tokens, skip_whitespace(tokens, i + 1) + 1, 1) - 1))]))

find_data_sources(body) == scan_sources(get_tokens(body), 1, <<>>)

\* the bodies given to find_data_sources: a call of Sql.Database, and
\* behind its "(" at most MaxArgPieces of these pieces
MaxArgPieces == 4

ArgPieces ==
  {<<"W", "e", "b", ".", "C", "o", "n", "t", "e", "n", "t", "s">>,
   <<"(">>, <<")">>, <<",">>, <<"x">>, <<" ">>}

SourceTexts ==
  {<<"S", "q", "l", ".", "D", "a", "t", "a", "b", "a", "s", "e", "(">> \o join(ps) :
     ps \in SeqsUpTo(ArgPieces, MaxArgPieces)}

InitSources ==
  /\ files = EmptyIndex
  /\ idxFile = NoIndexFile
  /\ idxNewer = FALSE
  /\ index = EmptyIndex
  /\ \E body \in SourceTexts : last = [NoCall EXCEPT !.text = body]
  /\ readers = NoReaders

\* parser.find_data_sources(body): tokens = self.get_tokens(body), then the
\* loop over them
FindDataSources(body) ==
  /\ last.op = "init"
  /\ \E tokens \in {get_tokens(body)} :
       \E r \in {scan_sources(tokens, 1, <<>>)} :
         last' = [last EXCEPT !.op = "find_data_sources",
                              !.tokens = tokens, !.ret = r]
  /\ UNCHANGED <<files, idxFile, idxNewer, index>>
  /\ UNCHANGED readers

NextSources == FindDataSources(last.text)

SpecSources == InitSources /\ [][NextSources]_vars

\* token i is a DATASOURCE token, and token j the "(" that follows it
\* after whitespace only
CallOpens(tokens, i, j) ==
  /\ tokens[i].kind = "DATASOURCE"
  /\ j \in (i + 1)..Len(tokens) /\ tokens[j].value = <<"(">>
  /\ \A m \in (i + 1)..(j - 1) : tokens[m].value \in {<<" ">>, <<"\n">>}

\* the nesting depth behind token k, the "(" at token j having opened
\* depth 1
Depth(tokens, j, k) ==
  1 + Cardinality({m \in (j + 1)..k : tokens[m].value = <<"(">>})
    - Cardinality({m \in (j + 1)..k : tokens[m].value = <<")">>})

\* the tokens that can end the first argument opened at token j: a comma
\* at depth 1 or the closing parenthesis that brings the depth to 0
ArgEnds(tokens, j) ==
  {k \in (j + 1)..Len(tokens) :
     \/ tokens[k].value = <<",">> /\ Depth(tokens, j, k) = 1
     \/ tokens[k].value = <<")">> /\ Depth(tokens, j, k) = 0}

Least(S) == CHOOSE k \in S : \A m \in S : k <= m

\* the records due from token i on, tokens before upto being consumed
RECURSIVE Due(_, _, _, _)
Due(text, tokens, i, upto) ==
  IF i > Len(tokens) THEN <<>>
  ELSE IF i >= upto
          /\ \E j \in 1..Len(tokens) :
               CallOpens(tokens, i, j) /\ ArgEnds(tokens, j) # {}
  THEN LET j == CHOOSE n \in 1..Len(tokens) : CallOpens(tokens, i, n)
           k == Least(ArgEnds(tokens, j))
       IN <<[type |-> tokens[i].value,
             full_argument |->
               strip(SubSeq(text, tokens[j].start + 1, tokens[k].start - 1))]>>
            \o Due(text, tokens, i + 1, k)
  ELSE Due(text, tokens, i + 1, upto)

\* C28: for every DATASOURCE token followed, after whitespace only, by "("
\* with a terminated first argument, find_data_sources reports one record
\* whose full_argument is the trimmed source text between that "(" and
\* the first comma at depth 1 or the matching ")"; a data-source call
\* inside a consumed first argument gets no record of its own, and there
\* are no other records.
C28_OneRecordPerCall ==
  last.op = "find_data_sources"
    => last.ret = Due(last.text, last.tokens, 1, 1)

\* Sql.Database(Web.Contents(...)...) with the inner call inside the first
\* argument: one record, for the outer call
C28_Witness ==
  /\ last.op = "find_data_sources"
  /\ Len(last.ret) = 1
  /\ \E i \in 2..Len(last.tokens), j \in 1..Len(last.tokens) :
       /\ CallOpens(last.tokens, i, j) /\ ArgEnds(last.tokens, j) # {}
       /\ ArgEnds(last.tokens, 2) # {}
       /\ i < Least(ArgEnds(last.tokens, 2))
  /\ starts_with(last.ret[1].full_argument, 1,
       <<"W", "e", "b", ".", "C", "o", "n", "t", "e", "n", "t", "s">>)

\* ------------------------------------------------- find_dependencies
\* the characters of the bodies, in the order of their code points
code_points ==
  <<"\n", " ", "\"", "#", "(", ")", ",", ".">>
    \o <<"0", "1", "2", "3", "4", "5", "6", "7", "8", "9">>
    \o ascii_uppercase \o <<"_">> \o ascii_lowercase

\* ord(c), up to the gaps between the characters above
ord(c) == CHOOSE n \in 1..Len(code_points) : code_points[n] = c

\* a < b for two str, as sorted() compares them
RECURSIVE str_less(_, _)
str_less(a, b) ==
  IF b = <<>> THEN FALSE
  ELSE IF a = <<>> THEN TRUE
  ELSE IF a[1] # b[1] THEN ord(a[1]) < ord(b[1])
  ELSE str_less(Tail(a), Tail(b))

\* sorted(list(dependencies)), in the order of the names met
RECURSIVE sorted_unordered(_)
sorted_unordered(dependencies) ==
  IF dependencies = {} THEN <<>>
  ELSE <<CHOOSE x \in dependencies : TRUE>>
         \o sorted_unordered(dependencies \ {CHOOSE x \in dependencies : TRUE})

\* sorted(list(dependencies))
RECURSIVE sorted_names(_)
sorted_names(dependencies) ==
  IF dependencies = {} THEN <<>>
  ELSE <<CHOOSE x \in dependencies :
           \A y \in dependencies : x = y \/ str_less(x, y)>>
         \o sorted_names(dependencies \
              {CHOOSE x \in dependencies :
                 \A y \in dependencies : x = y \/ str_less(x, y)})

\* [a-zA-Z0-9_.] and \s
NameChars == WordChars \cup {"."}
Whitespace == {" ", "\n"}

NoMatch == [name |-> <<>>, end |-> 0, group |-> 0]

\* \s*\( from position e on, behind the name that began at position i
call_behind(text, i, e, p, group) ==
  IF p <= Len(text) /\ text[p] = "("
  THEN [name |-> SubSeq(text, i, e - 1), end |-> p + 1, group |-> group]
  ELSE NoMatch

\* dep_regex tried at position i:
\* (\b[a-zA-Z_][a-zA-Z0-9_.]*)\s*\(|(#"[^"]+")\s*\(
dep_regex(text, i) ==
  IF boundary(text, i) /\ text[i] \in Letters \cup {"_"}
  THEN call_behind(text, i, run_end(text, i + 1, NameChars),
                   run_end(text, run_end(text, i + 1, NameChars), Whitespace), 1)
  ELSE IF /\ i + 1 <= Len(text) /\ text[i] = "#" /\ text[i + 1] = "\""
          /\ find(text, "\"", i + 2) > i + 2
  THEN call_behind(text, i, find(text, "\"", i + 2) + 1,
                   run_end(text, find(text, "\"", i + 2) + 1, Whitespace), 2)
  ELSE NoMatch

\* builtin_func_regex.match(name): ^[A-Z][a-zA-Z0-9_]*\.[A-Z][a-zA-Z0-9_.]*$
\* on a name of dep_regex's first group
builtin_func_regex(name) ==
  /\ \E k \in 1..26 : ascii_uppercase[k] = name[1]
  /\ find(name, ".", 1) # 0
  /\ find(name, ".", 1) < Len(name)
  /\ \E k \in 1..26 : ascii_uppercase[k] = name[find(name, ".", 1) + 1]

\* the filters of the loop body: the match adds no dependency
filtered(m) ==
  \/ \E k \in 1..Len(M_KEYWORDS) : M_KEYWORDS[k] = m.name
  \/ \E k \in 1..Len(M_DATA_SOURCES) : M_DATA_SOURCES[k] = m.name
  \/ m.group = 1 /\ builtin_func_regex(m.name)

\* one step of the loop over dep_regex.finditer(body)
RECURSIVE dep_matches(_, _, _)
dep_step(text, i, dependencies, m) ==
  IF m.end = 0 THEN dep_matches(text, i + 1, dependencies)
  ELSE dep_matches(text, m.end,
         IF filtered(m) THEN dependencies ELSE dependencies \cup {m.name})

\* for match in dep_regex.finditer(body), from position i on
dep_matches(text, i, dependencies) ==
  IF i > Len(text) THEN dependencies
  ELSE dep_step(text, i, dependencies, dep_regex(text, i))

find_dependencies(body) == sorted_names(dep_matches(body, 1, {}))

\* the bodies given to find_dependencies: at most MaxCallPieces of these
\* pieces, one after the other
MaxCallPieces == 4

CallPieces ==
  {<<"f">>, <<"(">>, <<"g", " ", "(">>, <<"i", "f">>,
   <<"L", "i", "s", "t", ".", "M", "a", "x">>,
   <<"S", "q", "l", ".", "D", "a", "t", "a", "b", "a", "s", "e">>,
   <<"#", "\"">>, <<"\"", "(">>}

CallTexts == {join(ps) : ps \in SeqsUpTo(CallPieces, MaxCallPieces)}

InitCalls ==
  /\ files = EmptyIndex
  /\ idxFile = NoIndexFile
  /\ idxNewer = FALSE
  /\ index = EmptyIndex
  /\ \E body \in CallTexts : last = [NoCall EXCEPT !.text = body]
  /\ readers = NoReaders

\* parser.find_dependencies(body)
FindDependencies(body) ==
  /\ last.op = "init"
  /\ \E r \in {find_dependencies(body)} :
       last' = [last EXCEPT !.op = "find_dependencies", !.ret = r]
  /\ UNCHANGED <<files, idxFile, idxNewer, index>>
  /\ UNCHANGED readers

NextCalls == FindDependencies(last.text)

SpecCalls == InitCalls /\ [][NextCalls]_vars

\* "(" follows position e after whitespace only; ParenBehind is where
BeforeParen(text, e) ==
  \E p \in (e + 1)..Len(text) :
    text[p] = "(" /\ \A n \in (e + 1)..(p - 1) : text[n] \in Whitespace

ParenBehind(text, e) == CHOOSE p \in (e + 1)..Len(text) : text[p] = "("

\* a name can begin at position i: a letter or "_" at a word boundary
NameStart(text, i) == boundary(text, i) /\ text[i] \in Letters \cup {"_"}

\* positions i..e hold a name: from its first character the letters,
\* digits, "_" and "." as far as they go, and not part of a longer name
PlainNameAt(text, i, e) ==
  /\ NameStart(text, i)
  /\ \A n \in i..e : text[n] \in NameChars
  /\ e = Len(text) \/ text[e + 1] \notin NameChars
  /\ ~\E b \in 1..(i - 1) :
        NameStart(text, b) /\ \A n \in b..i : text[n] \in NameChars

\* positions i..e hold a name in the quoted-identifier form, #"..."
QuotedNameAt(text, i, e) ==
  /\ e >= i + 3 /\ text[i] = "#" /\ text[i + 1] = "\"" /\ text[e] = "\""
  /\ \A n \in (i + 2)..(e - 1) : text[n] # "\""

\* the places <<i, e, quoted>> where a name stands directly before "("
Occurrences(text) ==
  {o \in (1..Len(text)) \X (1..Len(text)) \X BOOLEAN :
     /\ o[1] <= o[2]
     /\ IF o[3] THEN QuotedNameAt(text, o[1], o[2])
        ELSE PlainNameAt(text, o[1], o[2])
     /\ BeforeParen(text, o[2])}

\* the name is a keyword, a data source, or of the built-in shape
\* Uppercase.Uppercase and not quoted
Excluded(name, quoted) ==
  \/ \E k \in 1..Len(M_KEYWORDS) : M_KEYWORDS[k] = name
  \/ \E k \in 1..Len(M_DATA_SOURCES) : M_DATA_SOURCES[k] = name
  \/ /\ ~quoted
     /\ \E d \in 2..(Len(name) - 1) :
          /\ name[d] = "." /\ \A n \in 1..(d - 1) : name[n] # "."
          /\ \E k \in 1..26 : ascii_uppercase[k] = name[1]
          /\ \E k \in 1..26 : ascii_uppercase[k] = name[d + 1]

\* the list is sorted and without duplicates
StrictlySorted(list) ==
  \A n \in 1..(Len(list) - 1) : str_less(list[n], list[n + 1])

\* C21 as stated: find_dependencies returns the duplicate-free sorted list
\* of exactly the names that stand in the body directly before "("
\* (whitespace allowed) and are not a keyword, not a data source and not
\* of the built-in shape unless quoted.
C21_NamesBeforeParen ==
  last.op = "find_dependencies" =>
    /\ StrictlySorted(last.ret)
    /\ Range(last.ret) =
         {SubSeq(last.text, o[1], o[2]) :
            o \in {x \in Occurrences(last.text) :
                     ~Excluded(SubSeq(last.text, x[1], x[2]), x[3])}}

\* the occurrence o begins inside a quoted name that stands before "(",
\* or inside the whitespace and "(" behind it
InsideQuotedCall(text, o) ==
  \E x \in Occurrences(text) :
    x[3] /\ x[1] < o[1] /\ o[1] <= ParenBehind(text, x[2])

\* the occurrences that the scan from left to right meets: those not
\* begun inside a quoted name before "(" that the scan has met
RECURSIVE Met(_, _)
Met(text, todo) ==
  IF todo = {} THEN {}
  ELSE LET o == CHOOSE x \in todo : \A y \in todo : x[1] <= y[1]
       IN {o} \cup Met(text,
                   {y \in todo \ {o} :
                      ~(o[3] /\ y[1] <= ParenBehind(text, o[2]))})

\* C21, amended: the same of the names met scanning from left to right,
\* where a quoted name before "(" covers what stands inside it.
C21_NamesMetBeforeParen ==
  last.op = "find_dependencies" =>
    /\ StrictlySorted(last.ret)
    /\ Range(last.ret) =
         {SubSeq(last.text, o[1], o[2]) :
            o \in {x \in Met(last.text, Occurrences(last.text)) :
                     ~Excluded(SubSeq(last.text, x[1], x[2]), x[3])}}

\* two names returned in sorted order that stand in the body in the other
\* order, and a quoted name of the built-in shape
C21_Witness ==
  /\ last.op = "find_dependencies"
  /\ Len(last.ret) >= 2
  /\ \E i, j \in 1..Len(last.text) :
       /\ i < j
       /\ \E e \in 1..Len(last.text) :
            <<j, e, FALSE>> \in Occurrences(last.text)
              /\ SubSeq(last.text, j, e) = last.ret[1]
       /\ \E e \in 1..Len(last.text) :
            <<i, e, FALSE>> \in Occurrences(last.text)
              /\ SubSeq(last.text, i, e) = last.ret[2]

\* --------------------------------------------------- find_parameters
\* text goes on at position i with exactly these characters
at(text, i, word) ==
  /\ i >= 1 /\ i + Len(word) - 1 <= Len(text)
  /\ \A k \in 1..Len(word) : text[i + k - 1] = word[k]

\* (?:\s+as\s+.*?)?\s*=> at position a, behind the ")"
arrow_behind(text, a) ==
  \/ /\ run_end(text, a, Whitespace) > a
     /\ at(text, run_end(text, a, Whitespace), <<"a", "s">>)
     /\ run_end(text, a, Whitespace) + 2 <= Len(text)
     /\ text[run_end(text, a, Whitespace) + 2] \in Whitespace
     /\ find_pair(text, "=", ">", run_end(text, a, Whitespace) + 3) # 0
  \/ at(text, run_end(text, a, Whitespace), <<"=", ">">>)

\* the lazy group (.*?) that began at position p: where the shortest one
\* ends that \s*\)(?:\s+as\s+.*?)?\s*=> can follow (0: none)
RECURSIVE group_end(_, _, _)
group_end(text, p, e) ==
  IF e > Len(text) THEN 0
  ELSE IF /\ run_end(text, e, Whitespace) <= Len(text)
          /\ text[run_end(text, e, Whitespace)] = ")"
          /\ arrow_behind(text, run_end(text, e, Whitespace) + 1)
  THEN e
  ELSE group_end(text, p, e + 1)

\* re.search(r'\(\s*(.*?)\s*\)(?:\s+as\s+.*?)?\s*=>', body, re.DOTALL) from
\* position s on: group(1) of the leftmost match, None when there is none
RECURSIVE main_match(_, _)
main_match(text, s) ==
  IF s > Len(text) THEN None
  ELSE IF text[s] = "("
          /\ group_end(text, run_end(text, s + 1, Whitespace),
                       run_end(text, s + 1, Whitespace)) # 0
  THEN Some(SubSeq(text, run_end(text, s + 1, Whitespace),
                   group_end(text, run_end(text, s + 1, Whitespace),
                             run_end(text, s + 1, Whitespace)) - 1))
  ELSE main_match(text, s + 1)

\* re.sub(comment_regex, '', list_str), from position i on
RECURSIVE cleaned(_, _)
cleaned(text, i) ==
  IF i > Len(text) THEN <<>>
  ELSE IF COMMENT(text, i) # 0 THEN cleaned(text, COMMENT(text, i))
  ELSE <<text[i]>> \o cleaned(text, i + 1)

\* str.split(','), from position i on
RECURSIVE split_commas(_, _)
split_commas(text, i) ==
  IF find(text, ",", i) = 0 THEN <<SubSeq(text, i, Len(text))>>
  ELSE <<SubSeq(text, i, find(text, ",", i) - 1)>>
         \o split_commas(text, find(text, ",", i) + 1)

\* ([a-zA-Z0-9_]+)(\s+as\s+(.*))?\s*$ at position n of the part, the name
\* ending before position m
name_tail(part, n, m, is_optional) ==
  IF m = n THEN None
  ELSE IF /\ run_end(part, m, Whitespace) > m
          /\ at(part, run_end(part, m, Whitespace), <<"a", "s">>)
          /\ run_end(part, m, Whitespace) + 2 <= Len(part)
          /\ part[run_end(part, m, Whitespace) + 2] \in Whitespace
  THEN Some([name |-> SubSeq(part, n, m - 1),
             type |->
               IF run_end(part, run_end(part, m, Whitespace) + 2, Whitespace)
                    > Len(part)
               THEN <<"a", "n", "y">>
               ELSE strip(SubSeq(part,
                      run_end(part, run_end(part, m, Whitespace) + 2, Whitespace),
                      Len(part))),
             optional |-> is_optional])
  ELSE IF run_end(part, m, Whitespace) > Len(part)
  THEN Some([name |-> SubSeq(part, n, m - 1), type |-> <<"a", "n", "y">>,
             optional |-> is_optional])
  ELSE None

\* param_regex tried with its group (optional\s+) at position t
with_optional(part, t) ==
  IF at(part, t, <<"o", "p", "t", "i", "o", "n", "a", "l">>) /\ run_end(part, t + 8, Whitespace) > t + 8
  THEN name_tail(part, run_end(part, t + 8, Whitespace),
                 run_end(part, run_end(part, t + 8, Whitespace), WordChars), TRUE)
  ELSE None

\* param_regex.match(part):
\* ^\s*(optional\s+)?([a-zA-Z0-9_]+)(\s+as\s+(.*))?\s*$
param_regex(part) ==
  IF with_optional(part, run_end(part, 1, Whitespace)) # None
  THEN with_optional(part, run_end(part, 1, Whitespace))
  ELSE name_tail(part, run_end(part, 1, Whitespace),
                 run_end(part, run_end(part, 1, Whitespace), WordChars), FALSE)

\* the record that the loop appends for a part that is not blank
param_record(part) ==
  IF param_regex(part) # None THEN param_regex(part)[1]
  ELSE [name |-> strip(part), type |-> <<"u", "n", "k", "n", "o", "w", "n">>, optional |-> FALSE]

\* for part in param_parts
RECURSIVE params_list(_, _)
params_list(param_parts, k) ==
  IF k > Len(param_parts) THEN <<>>
  ELSE IF strip(param_parts[k]) = <<>> THEN params_list(param_parts, k + 1)
  ELSE <<param_record(param_parts[k])>> \o params_list(param_parts, k + 1)

\* find_parameters behind re.search, list_str being its group(1)
parameters_of(list_str) ==
  IF list_str = None THEN <<>>
  ELSE IF strip(list_str[1]) = <<>> THEN <<>>
  ELSE params_list(split_commas(cleaned(list_str[1], 1), 1), 1)

find_parameters(body) == parameters_of(main_match(body, 1))

\* the bodies given to find_parameters: nothing or a call, then a
\* parenthesized list of at most MaxParams of the parts below, then
\* nothing, "=>" or a return type and "=>"
MaxParams == 2

PartTexts ==
  {<<"x">>, <<"o", "p", "t", "i", "o", "n", "a", "l", " ", "y">>, <<"z", " ", "a", "s", " ", "n", "u", "m", "b", "e", "r">>, <<" ">>,
   <<"x", " ", "y">>, <<"y", "/", "*", ",", "*", "/">>}

RECURSIVE join_commas(_)
join_commas(parts) ==
  IF parts = <<>> THEN <<>>
  ELSE IF Len(parts) = 1 THEN parts[1]
  ELSE parts[1] \o <<",">> \o join_commas(Tail(parts))

ParamTexts ==
  {prefix \o <<"(">> \o join_commas(parts) \o <<")">> \o suffix :
     prefix \in {<<>>, <<"f", "(", "1", ")">>},
     parts \in SeqsUpTo(PartTexts, MaxParams),
     suffix \in {<<>>, <<"=", ">">>, <<" ", "a", "s", " ", "t", "e", "x", "t", " ", "=", ">">>}}

InitParams ==
  /\ files = EmptyIndex
  /\ idxFile = NoIndexFile
  /\ idxNewer = FALSE
  /\ index = EmptyIndex
  /\ \E body \in ParamTexts : last = [NoCall EXCEPT !.text = body]
  /\ readers = NoReaders

\* parser.find_parameters(body)
FindParameters(body) ==
  /\ last.op = "init"
  /\ \E r \in {find_parameters(body)} :
       last' = [last EXCEPT !.op = "find_parameters", !.ret = r]
  /\ UNCHANGED <<files, idxFile, idxNewer, index>>
  /\ UNCHANGED readers

NextParams == FindParameters(last.text)

SpecParams == InitParams /\ [][NextParams]_vars

\* "=>" follows position c, directly or behind "as" and a type
ArrowFollows(text, c) ==
  \E a \in (c + 1)..Len(text) :
    /\ at(text, a, <<"=", ">">>)
    /\ \/ \A n \in (c + 1)..(a - 1) : text[n] \in Whitespace
       \/ \E w \in (c + 2)..(a - 1) :
            /\ at(text, w, <<"a", "s">>) /\ text[w + 2] \in Whitespace
            /\ \A n \in (c + 1)..(w - 1) : text[n] \in Whitespace

\* positions s and c hold the parentheses of a parenthesized list that
\* "=>" follows
ListAt(text, s, c) ==
  /\ s < c /\ text[s] = "(" /\ text[c] = ")"
  /\ \A n \in (s + 1)..(c - 1) : text[n] \notin {"(", ")"}
  /\ ArrowFollows(text, c)

\* the words of a text that whitespace separates, from position i on
RECURSIVE words(_, _)
words(text, i) ==
  IF run_end(text, i, Whitespace) > Len(text) THEN <<>>
  ELSE <<SubSeq(text, run_end(text, i, Whitespace),
                (CHOOSE e \in run_end(text, i, Whitespace)..Len(text) :
                   /\ \A n \in run_end(text, i, Whitespace)..e :
                        text[n] \notin Whitespace
                   /\ e = Len(text) \/ text[e + 1] \in Whitespace))>>
         \o words(text,
              1 + (CHOOSE e \in run_end(text, i, Whitespace)..Len(text) :
                     /\ \A n \in run_end(text, i, Whitespace)..e :
                          text[n] \notin Whitespace
                     /\ e = Len(text) \/ text[e + 1] \in Whitespace))

\* the words behind the optional keyword
Declared(ws) == IF ws[1] = <<"o", "p", "t", "i", "o", "n", "a", "l">> THEN Tail(ws) ELSE ws

\* the part has the shape [optional ]<name>[ as <type>]
HasShape(ws) ==
  /\ Declared(ws) # <<>>
  /\ \A n \in 1..Len(Declared(ws)[1]) : Declared(ws)[1][n] \in WordChars
  /\ Len(Declared(ws)) = 1
       \/ (Len(Declared(ws)) >= 3 /\ Declared(ws)[2] = <<"a", "s">>)

\* the trimmed text behind the first word "as" of the part
TextAfterAs(part) ==
  strip(SubSeq(part,
          2 + (CHOOSE w \in 2..Len(part) :
                 /\ at(part, w, <<"a", "s">>)
                 /\ part[w - 1] \in Whitespace /\ part[w + 2] \in Whitespace
                 /\ \A v \in 2..(w - 1) :
                      ~(/\ at(part, v, <<"a", "s">>)
                        /\ part[v - 1] \in Whitespace
                        /\ part[v + 2] \in Whitespace)),
          Len(part)))

\* the record that C22 states for a part
RecordOf(part) ==
  IF HasShape(words(part, 1))
  THEN [name |-> Declared(words(part, 1))[1],
        type |-> IF Len(Declared(words(part, 1))) = 1 THEN <<"a", "n", "y">>
                 ELSE TextAfterAs(part),
        optional |-> words(part, 1)[1] = <<"o", "p", "t", "i", "o", "n", "a", "l">>]
  ELSE [name |-> strip(part), type |-> <<"u", "n", "k", "n", "o", "w", "n">>, optional |-> FALSE]

RECURSIVE RecordsOf(_, _)
RecordsOf(parts, k) ==
  IF k > Len(parts) THEN <<>>
  ELSE IF strip(parts[k]) = <<>> THEN RecordsOf(parts, k + 1)
  ELSE <<RecordOf(parts[k])>> \o RecordsOf(parts, k + 1)

\* C22: find_parameters returns the empty list when the body has no
\* parenthesized list followed by "=>" or that list is empty; else one
\* record per non-empty comma-separated part of the first such list, in
\* order: optional iff the part starts with the optional keyword, type the
\* trimmed text after "as" or "any", and the placeholder for a part
\* without that shape.
C22_RecordsOfFirstList ==
  last.op = "find_parameters" =>
    IF \E s, c \in 1..Len(last.text) : ListAt(last.text, s, c)
    THEN \E s, c \in 1..Len(last.text) :
           /\ ListAt(last.text, s, c)
           /\ \A s2, c2 \in 1..Len(last.text) :
                ListAt(last.text, s2, c2) => s <= s2
           /\ last.ret =
                RecordsOf(split_commas(
                  cleaned(SubSeq(last.text, s + 1, c - 1), 1), 1), 1)
    ELSE last.ret = <<>>

\* ------------------------------------------------- the legacy insertion
\* C30: insert_pqs_batch and insert_pq_into_active_excel return for every
\* dependency graph of the index, cycles and self-dependencies included:
\* the batch returns its dict with each name it was given either inserted
\* or listed as failed, the single insertion returns or raises its
\* RuntimeError, and the nesting of _insert_into_workbook never runs into
\* the recursion limit.
C30_InsertionReturns ==
  /\ last.op = "insert_pqs_batch" =>
       /\ last.err = ""
       /\ \A n \in Range(last.names) : n \in last.hits \/ n \in Range(last.failed)
  /\ last.op = "insert_pq_into_active_excel" =>
       last.err \in {"", "RuntimeError"}

====
